---- MODULE Spec2Model ----
(***************************************************************************)
(* The BepInEx configuration codec of hq-launcher                          *)
(* (src-tauri/src/bepinex_cfg.rs) and the command that edits one entry     *)
(* of a configuration file (set_bepinex_cfg_entry, src-tauri/src/lib.rs).  *)
(*                                                                         *)
(* Text is modelled as TLA+ strings, a file as the sequence of its         *)
(* physical lines.  Option<T> is a sequence of length 0 (None) or 1        *)
(* (Some), Result<T, String> a record [ok, val] or [ok, err].              *)
(***************************************************************************)
EXTENDS Integers, Sequences, FiniteSets, TLC

\* ------------------------------------------------------------------------
\* Option and Result
\* ------------------------------------------------------------------------
None == <<>>
Some(x) == <<x>>
IsSome(o) == Len(o) = 1
Get(o) == o[1]

Ok(v) == [ok |-> TRUE, val |-> v]
Err(e) == [ok |-> FALSE, err |-> e]

\* ------------------------------------------------------------------------
\* std string operations used by the codec
\* ------------------------------------------------------------------------
\* the character of s at i (from 1), "" outside s
CharAt(s, i) == IF i \in 1..Len(s) THEN SubSeq(s, i, i) ELSE ""

\* str::starts_with / str::ends_with
StartsWith(s, p) == Len(s) >= Len(p) /\ SubSeq(s, 1, Len(p)) = p
EndsWith(s, p) == Len(s) >= Len(p) /\ SubSeq(s, Len(s) - Len(p) + 1, Len(s)) = p

\* str::strip_prefix: None, or Some(rest)
StripPrefix(s, p) == IF StartsWith(s, p) THEN Some(SubSeq(s, Len(p) + 1, Len(s))) ELSE None

\* str::find: the index of the first occurrence of pat at or after i, 0 if none
RECURSIVE FindFrom(_, _, _)
FindFrom(s, pat, i) ==
    IF i + Len(pat) - 1 > Len(s) THEN 0
    ELSE IF SubSeq(s, i, i + Len(pat) - 1) = pat THEN i
    ELSE FindFrom(s, pat, i + 1)

Find(s, pat) == FindFrom(s, pat, 1)
Contains(s, pat) == Find(s, pat) # 0

\* s cut around the n characters at i, or None when i is 0
SplitAt(s, n, i) ==
    IF i = 0 THEN None ELSE Some(<<SubSeq(s, 1, i - 1), SubSeq(s, i + n, Len(s))>>)

\* str::split_once: None, or Some(<<before, after>>) around the first occurrence
SplitOnce(s, pat) == SplitAt(s, Len(pat), Find(s, pat))

\* str::split(pat) collected: always at least one piece
RECURSIVE Split(_, _)
SplitRest(cut, s, pat) ==
    IF IsSome(cut) THEN <<Get(cut)[1]>> \o Split(Get(cut)[2], pat) ELSE <<s>>

Split(s, pat) == SplitRest(SplitOnce(s, pat), s, pat)

\* [String]::join(sep)
RECURSIVE Join(_, _)
Join(parts, sep) ==
    IF Len(parts) = 0 THEN ""
    ELSE IF Len(parts) = 1 THEN parts[1]
    ELSE parts[1] \o sep \o Join(Tail(parts), sep)

\* str::replace(from, to): the pieces between the occurrences of from, joined by to
Replace(s, from, to) == Join(Split(s, from), to)

\* char::is_whitespace on the characters the model's texts use
WhiteSpace == {" ", "\t", "\r", "\n", "\f"}

RECURSIVE TrimStart(_)
TrimStart(s) ==
    IF Len(s) > 0 /\ CharAt(s, 1) \in WhiteSpace THEN TrimStart(SubSeq(s, 2, Len(s))) ELSE s

RECURSIVE TrimEnd(_)
TrimEnd(s) ==
    IF Len(s) > 0 /\ CharAt(s, Len(s)) \in WhiteSpace THEN TrimEnd(SubSeq(s, 1, Len(s) - 1)) ELSE s

\* str::trim
Trim(s) == TrimEnd(TrimStart(s))

\* str::trim_start_matches(pat): strips the prefix repeatedly
RECURSIVE TrimStartMatches(_, _)
TrimStartMatches(s, pat) ==
    IF StartsWith(s, pat) THEN TrimStartMatches(SubSeq(s, Len(pat) + 1, Len(s)), pat) ELSE s

\* the loop `while line.ends_with('\n') || line.ends_with('\r') { line.pop(); }`
RECURSIVE StripEol(_)
StripEol(s) ==
    IF EndsWith(s, "\n") \/ EndsWith(s, "\r") THEN StripEol(SubSeq(s, 1, Len(s) - 1)) ELSE s

\* the pieces of a text cut at \n, without the empty piece after a final \n
DropLastEmpty(parts) ==
    IF parts[Len(parts)] = "" THEN SubSeq(parts, 1, Len(parts) - 1) ELSE parts

RECURSIVE DropCr(_)
DropCr(parts) ==
    IF Len(parts) = 0 THEN <<>>
    ELSE <<IF EndsWith(parts[1], "\r") THEN SubSeq(parts[1], 1, Len(parts[1]) - 1) ELSE parts[1]>>
         \o DropCr(Tail(parts))

\* str::lines collected: cut at \n, a \r before it dropped, no final empty line
StrLines(s) == DropCr(DropLastEmpty(Split(s, "\n")))

\* Iterator::position: the index (from 0) of the first element equal to x, as an Option
RECURSIVE PositionFrom(_, _, _)
PositionFrom(seq, x, i) ==
    IF i > Len(seq) THEN None
    ELSE IF seq[i] = x THEN Some(i - 1)
    ELSE PositionFrom(seq, x, i + 1)

Position(seq, x) == PositionFrom(seq, x, 1)

\* Option::unwrap_or
UnwrapOr(o, d) == IF IsSome(o) THEN Get(o) ELSE d

\* ------------------------------------------------------------------------
\* Numbers and booleans as text
\* ------------------------------------------------------------------------
Digits == {"0", "1", "2", "3", "4", "5", "6", "7", "8", "9"}

DigitVal(c) ==
    CASE c = "0" -> 0 [] c = "1" -> 1 [] c = "2" -> 2 [] c = "3" -> 3 [] c = "4" -> 4
      [] c = "5" -> 5 [] c = "6" -> 6 [] c = "7" -> 7 [] c = "8" -> 8 [] c = "9" -> 9

DigitChar(d) ==
    CASE d = 0 -> "0" [] d = 1 -> "1" [] d = 2 -> "2" [] d = 3 -> "3" [] d = 4 -> "4"
      [] d = 5 -> "5" [] d = 6 -> "6" [] d = 7 -> "7" [] d = 8 -> "8" [] d = 9 -> "9"

AllDigits(s) == \A i \in 1..Len(s) : CharAt(s, i) \in Digits

\* i32::MAX and i32::MIN
I32Max == 2147483647
I32Min == -I32Max - 1

\* <i32 as FromStr>::from_str: an optional sign, then one or more decimal digits,
\* accumulated with checked arithmetic (towards I32Min for a negative number)
RECURSIVE AccPos(_, _, _)
AccPos(s, i, acc) ==
    IF i > Len(s) THEN Ok(acc)
    ELSE IF acc > (I32Max - DigitVal(CharAt(s, i))) \div 10
         THEN Err("number too large to fit in target type")
    ELSE AccPos(s, i + 1, acc * 10 + DigitVal(CharAt(s, i)))

RECURSIVE AccNeg(_, _, _)
AccNeg(s, i, acc) ==
    IF i > Len(s) THEN Ok(acc)
    ELSE IF acc < (I32Min + DigitVal(CharAt(s, i)) + 9) \div 10
         THEN Err("number too small to fit in target type")
    ELSE AccNeg(s, i + 1, acc * 10 - DigitVal(CharAt(s, i)))

ParseI32Digits(neg, body) ==
    IF body = "" \/ ~AllDigits(body) THEN Err("invalid digit found in string")
    ELSE IF neg THEN AccNeg(body, 1, 0)
    ELSE AccPos(body, 1, 0)

ParseI32(s) ==
    IF s = "" THEN Err("cannot parse integer from empty string")
    ELSE ParseI32Digits(CharAt(s, 1) = "-",
                        IF CharAt(s, 1) \in {"+", "-"} THEN SubSeq(s, 2, Len(s)) ELSE s)

\* <i32 as Display>::fmt
RECURSIVE NatToString(_)
NatToString(n) ==
    IF n < 10 THEN DigitChar(n) ELSE NatToString(n \div 10) \o DigitChar(n % 10)

RECURSIVE NegToString(_)
NegToString(n) ==
    \* n <= 0; the quotient is truncated towards zero, so that I32Min needs no negation
    IF n > -10 THEN DigitChar(-n)
    ELSE NegToString((n + 9) \div 10) \o DigitChar(((n + 9) \div 10) * 10 - n)

I32ToString(n) == IF n < 0 THEN "-" \o NegToString(n) ELSE NatToString(n)

\* a reading of booleans in either case
ParseBoolAnyCase(s) ==
    IF s \in {"true", "True"} THEN Ok(TRUE)
    ELSE IF s \in {"false", "False"} THEN Ok(FALSE)
    ELSE Err("provided string was not true or false")

\* a writing of booleans with a capital, as .NET does
BoolToStringCapital(b) == IF b THEN "True" ELSE "False"

\* <bool as FromStr>::from_str and <bool as Display>::fmt
ParseBool(s) ==
    IF s = "true" THEN Ok(TRUE)
    ELSE IF s = "false" THEN Ok(FALSE)
    ELSE Err("provided string was not true or false")

BoolToString(b) == IF b THEN "true" ELSE "false"

\* f32: the decimal m * 10^(-e), normalised (no trailing zero in the fraction),
\* or an infinity or NaN.  A decimal text of at most six significant digits
\* converts to f32 and back to the same decimal (f32::DIGITS), so for the
\* texts of the model the decimal stands for the f32 it rounds to.

RECURSIVE Pow10(_)
Pow10(n) == IF n = 0 THEN 1 ELSE 10 * Pow10(n - 1)

RECURSIVE F32Num(_, _, _)
F32Num(neg, m, e) ==
    IF e < 0 THEN F32Num(neg, m * 10, e + 1)
    ELSE IF e > 0 /\ m % 10 = 0 THEN F32Num(neg, m \div 10, e - 1)
    ELSE [kind |-> "num", neg |-> neg, m |-> m, e |-> e]

RECURSIVE DigitsVal(_, _, _)
DigitsVal(s, i, acc) ==
    IF i > Len(s) THEN acc ELSE DigitsVal(s, i + 1, acc * 10 + DigitVal(CharAt(s, i)))

\* the length of the run of decimal digits of s that starts at i
RECURSIVE DigitRun(_, _)
DigitRun(s, i) ==
    IF i <= Len(s) /\ CharAt(s, i) \in Digits THEN 1 + DigitRun(s, i + 1) ELSE 0

AsciiLowerChar(c) ==
    CASE c = "I" -> "i" [] c = "N" -> "n" [] c = "F" -> "f" [] c = "T" -> "t"
      [] c = "Y" -> "y" [] c = "A" -> "a" [] OTHER -> c

RECURSIVE AsciiLower(_)
AsciiLower(s) ==
    IF s = "" THEN "" ELSE AsciiLowerChar(CharAt(s, 1)) \o AsciiLower(SubSeq(s, 2, Len(s)))

\* <f32 as FromStr>::from_str: [+-] then inf | infinity | nan (any case), or
\* digits [. digits] [(e|E) [+-] digits] with a digit before or after the point
ParseF32ExpDigits(neg, m, nf, eneg, digits) ==
    IF digits = "" \/ ~AllDigits(digits) THEN Err("invalid float literal")
    ELSE F32Num(neg, m, nf - (IF eneg THEN -1 ELSE 1) * DigitsVal(digits, 1, 0))

ParseF32Exp(neg, m, nf, rest) ==
    IF rest = "" THEN F32Num(neg, m, nf)
    ELSE IF ~(StartsWith(rest, "e") \/ StartsWith(rest, "E")) THEN Err("invalid float literal")
    ELSE ParseF32ExpDigits(neg, m, nf, CharAt(rest, 2) = "-",
                           IF CharAt(rest, 2) \in {"+", "-"}
                           THEN SubSeq(rest, 3, Len(rest)) ELSE SubSeq(rest, 2, Len(rest)))

\* ni digits, then np characters of point and fraction (0 without a point)
ParseF32Mantissa(neg, t, ni, np) ==
    IF ni = 0 /\ np <= 1
    THEN Err("invalid float literal")
    ELSE ParseF32Exp(neg,
                     DigitsVal(SubSeq(t, 1, ni) \o SubSeq(t, ni + 2, ni + np), 1, 0),
                     IF np = 0 THEN 0 ELSE np - 1,
                     SubSeq(t, ni + np + 1, Len(t)))

ParseF32Point(neg, t, ni) ==
    ParseF32Mantissa(neg, t, ni,
                     IF CharAt(t, ni + 1) = "." THEN 1 + DigitRun(t, ni + 2) ELSE 0)

ParseF32Unsigned(neg, t) ==
    IF AsciiLower(t) \in {"inf", "infinity"} THEN [kind |-> "inf", neg |-> neg]
    ELSE IF AsciiLower(t) = "nan" THEN [kind |-> "nan"]
    ELSE ParseF32Point(neg, t, DigitRun(t, 1))

\* Err, or Ok of a value that is no Err record
AsResult(v) == IF "ok" \in DOMAIN v THEN v ELSE Ok(v)

ParseF32(s) ==
    IF s = "" THEN Err("cannot parse float from empty string")
    ELSE AsResult(ParseF32Unsigned(CharAt(s, 1) = "-",
                                   IF CharAt(s, 1) \in {"+", "-"}
                                   THEN SubSeq(s, 2, Len(s)) ELSE s))

RECURSIVE ZeroPad(_, _)
ZeroPad(s, n) == IF Len(s) >= n THEN s ELSE ZeroPad("0" \o s, n)

\* <f32 as Display>::fmt: the shortest decimal that reads back as the same f32,
\* without an exponent, the fraction omitted when it is zero
F32ToString(f) ==
    IF f.kind = "nan" THEN "NaN"
    ELSE IF f.kind = "inf" THEN (IF f.neg THEN "-inf" ELSE "inf")
    ELSE (IF f.neg THEN "-" ELSE "")
         \o NatToString(f.m \div Pow10(f.e))
         \o (IF f.e > 0 THEN "." \o ZeroPad(NatToString(f.m % Pow10(f.e)), f.e) ELSE "")

\* ------------------------------------------------------------------------
\* bepinex_cfg.rs: the value model
\* ------------------------------------------------------------------------
FLAGS_MESSAGE ==
    "# Multiple values can be set at the same time by separating them with , (e.g. Debug, Warning)"

\* enum Value; ParsedValue, SimpleValue and EnumLikeValue carry the same data
\* variant by variant, which parsed_to_value moves over unchanged
ValueBool(b) == [type |-> "Bool", b |-> b]
ValueString(s) == [type |-> "String", s |-> s]
ValueInt(value, range) == [type |-> "Int", int |-> value, int_range |-> range]
ValueFloat(value, range) == [type |-> "Float", float |-> value, float_range |-> range]
ValueEnum(index, options) == [type |-> "Enum", index |-> index, options |-> options]
ValueFlags(indicies, options) == [type |-> "Flags", indicies |-> indicies, options |-> options]

\* struct Num<T> and Range<T> (start..end)
Num(value, range) == [value |-> value, range |-> range]
Range(start, end) == [start |-> start, end |-> end]

Metadata(name, version, guid) == [mod_name |-> name, mod_version |-> version, mod_guid |-> guid]
Section(name, entries) == [name |-> name, entries |-> entries]
Entry(name, description, default, value) ==
    [name |-> name, description |-> description, default |-> default, value |-> value]
FileData(metadata, sections) == [metadata |-> metadata, sections |-> sections]

\* EntryBuilder::default()
EntryBuilder ==
    [description |-> None, type_name |-> None, default_value |-> None,
     acceptable_values |-> None, is_flags |-> FALSE, range |-> None,
     name |-> None, value |-> None]

\* ------------------------------------------------------------------------
\* bepinex_cfg.rs: text to value
\* ------------------------------------------------------------------------
\* the tail of parse_num_i32 and parse_num_f32: value, then min, then max, each
\* with `?`; bounds is None or Some of the two parsed bounds
NumWithRange(value, bounds) ==
    IF ~value.ok THEN value
    ELSE IF ~IsSome(bounds) THEN Ok(Num(value.val, None))
    ELSE IF ~Get(bounds)[1].ok THEN Get(bounds)[1]
    ELSE IF ~Get(bounds)[2].ok THEN Get(bounds)[2]
    ELSE Ok(Num(value.val, Some(Range(Get(bounds)[1].val, Get(bounds)[2].val))))

\* a parse_num_i32 that drops a range whose bounds are not numbers
parse_num_i32_lossy(value, range) ==
    NumWithRange(ParseI32(Trim(value)),
                 IF IsSome(range) /\ ParseI32(Trim(Get(range)[1])).ok
                                  /\ ParseI32(Trim(Get(range)[2])).ok
                 THEN Some(<<ParseI32(Trim(Get(range)[1])), ParseI32(Trim(Get(range)[2]))>>)
                 ELSE None)

parse_num_i32(value, range) ==
    NumWithRange(ParseI32(Trim(value)),
                 IF IsSome(range)
                 THEN Some(<<ParseI32(Trim(Get(range)[1])), ParseI32(Trim(Get(range)[2]))>>)
                 ELSE None)

\* a parse_num_f32 that takes a comma for a point in the bounds only
parse_num_f32_bounds_only(value, range) ==
    NumWithRange(ParseF32(Trim(value)),
                 IF IsSome(range)
                 THEN Some(<<ParseF32(Replace(Trim(Get(range)[1]), ",", ".")),
                             ParseF32(Replace(Trim(Get(range)[2]), ",", "."))>>)
                 ELSE None)

parse_num_f32(value, range) ==
    NumWithRange(ParseF32(Replace(Trim(value), ",", ".")),
                 IF IsSome(range)
                 THEN Some(<<ParseF32(Replace(Trim(Get(range)[1]), ",", ".")),
                             ParseF32(Replace(Trim(Get(range)[2]), ",", "."))>>)
                 ELSE None)

TrimBoth(pair) == IF IsSome(pair) THEN Some(<<Trim(Get(pair)[1]), Trim(Get(pair)[2])>>) ELSE None

parse_orphaned_entry_line(line) == TrimBoth(SplitOnce(line, "="))

\* a check_value_type that takes a leading minus sign for the start of a number
check_value_type_signed(value) ==
    IF CharAt(value, 1) \in Digits \cup {"-"}
        THEN (IF Contains(value, ".") THEN "Single" ELSE "Int32")
    ELSE IF CharAt(value, 1) \in {"t", "f"} THEN "Boolean"
    ELSE "String"

check_value_type(value) ==
    IF CharAt(value, 1) \in Digits
        THEN (IF Contains(value, ".") THEN "Single" ELSE "Int32")
    ELSE IF CharAt(value, 1) \in {"t", "f"} THEN "Boolean"
    ELSE "String"

\* a flags branch that takes a token that is no option for the first option
RECURSIVE FilterMapPositionOrFirst(_, _)
FilterMapPositionOrFirst(tokens, options) ==
    IF Len(tokens) = 0 THEN <<>>
    ELSE <<UnwrapOr(Position(options, tokens[1]), 0)>>
         \o FilterMapPositionOrFirst(Tail(tokens), options)

\* the flags branch of parse_enum: the positions of the tokens that are options
RECURSIVE FilterMapPosition(_, _)
FilterMapPosition(tokens, options) ==
    IF Len(tokens) = 0 THEN <<>>
    ELSE Position(options, tokens[1]) \o FilterMapPosition(Tail(tokens), options)

parse_enum(string, options, is_flags) ==
    IF is_flags
        THEN ValueFlags(FilterMapPosition(Split(string, ", "), options), options)
        ELSE ValueEnum(UnwrapOr(Position(options, string), 0), options)

\* a Boolean arm that takes any text that is not a boolean for false
BoolValueOrFalse(b) == IF b.ok THEN Ok(ValueBool(b.val)) ELSE Ok(ValueBool(FALSE))

\* Result::map over the three fallible arms of parse_simple_value
BoolValue(b) == IF b.ok THEN Ok(ValueBool(b.val)) ELSE b
IntValue(n) == IF n.ok THEN Ok(ValueInt(n.val.value, n.val.range)) ELSE n
FloatValue(n) == IF n.ok THEN Ok(ValueFloat(n.val.value, n.val.range)) ELSE n

\* a parse_simple_value that reads a value of an unknown type as it reads a String
parse_simple_value_unescaped(value, type_name, range) ==
    CASE type_name = "Boolean" -> BoolValue(ParseBool(Trim(value)))
      [] type_name = "String" -> Ok(ValueString(Replace(value, "\\n", "\n")))
      [] type_name \in {"Int32", "Number"} -> IntValue(parse_num_i32(value, range))
      [] type_name \in {"Single", "Double"} -> FloatValue(parse_num_f32(value, range))
      [] OTHER -> Ok(ValueString(Replace(value, "\\n", "\n")))

parse_simple_value(value, type_name, range) ==
    CASE type_name = "Boolean" -> BoolValue(ParseBool(Trim(value)))
      [] type_name = "String" -> Ok(ValueString(Replace(value, "\\n", "\n")))
      [] type_name \in {"Int32", "Number"} -> IntValue(parse_num_i32(value, range))
      [] type_name \in {"Single", "Double"} -> FloatValue(parse_num_f32(value, range))
      [] OTHER -> Ok(ValueString(value))

\* a parse_value that lets the type Int32 go before the option list
parse_value_by_type(string, options, type_name, range, is_flags) ==
    IF IsSome(options) /\ type_name # "Int32"
    THEN Ok(parse_enum(string, Get(options), is_flags))
    ELSE parse_simple_value(string, type_name, range)

parse_value(string, options, type_name, range, is_flags) ==
    IF IsSome(options) THEN Ok(parse_enum(string, Get(options), is_flags))
    ELSE parse_simple_value(string, type_name, range)

ParsedEntry(name, description, type_name, default, value) ==
    [name |-> name, description |-> description, type_name |-> type_name,
     default |-> default, value |-> value]

\* Result::map(Some): the `Some(Self::parse_value(..)?)` of build
SomeValue(r) == IF r.ok THEN Ok(Some(r.val)) ELSE r

\* the end of EntryBuilder::build: default and value are the two parse_value results
BuildParsed(self, type_name, default, value) ==
    IF ~IsSome(self.name) THEN Err("No entry name")
    ELSE IF ~default.ok THEN default
    ELSE IF ~value.ok THEN value
    ELSE Ok(ParsedEntry(Get(self.name), self.description, type_name, default.val, value.val))

\* a build that reads the default without the option list
BuildTypedPlainDefault(self, value_raw, type_name) ==
    BuildParsed(self, type_name,
                IF IsSome(self.default_value)
                THEN SomeValue(parse_value(Get(self.default_value), None,
                                           type_name, self.range, self.is_flags))
                ELSE Ok(None),
                parse_value(value_raw, self.acceptable_values, type_name, self.range,
                            self.is_flags))

\* EntryBuilder::build once value_raw and type_name are bound
BuildTyped(self, value_raw, type_name) ==
    BuildParsed(self, type_name,
                IF IsSome(self.default_value)
                THEN SomeValue(parse_value(Get(self.default_value), self.acceptable_values,
                                           type_name, self.range, self.is_flags))
                ELSE Ok(None),
                parse_value(value_raw, self.acceptable_values, type_name, self.range,
                            self.is_flags))

\* EntryBuilder::build
build(self) ==
    BuildTyped(self, UnwrapOr(self.value, ""),
               UnwrapOr(self.type_name, check_value_type(UnwrapOr(self.value, ""))))

\* ------------------------------------------------------------------------
\* bepinex_cfg.rs: value to text
\* ------------------------------------------------------------------------
\* the flags branch of value_to_string: the options at the indices that exist
RECURSIVE FilterMapGet(_, _)
FilterMapGet(indicies, options) ==
    IF Len(indicies) = 0 THEN <<>>
    ELSE (IF indicies[1] + 1 \in 1..Len(options) THEN <<options[indicies[1] + 1]>> ELSE <<>>)
         \o FilterMapGet(Tail(indicies), options)

value_to_string(v) ==
    CASE v.type = "Bool" -> BoolToString(v.b)
      [] v.type = "String" -> Replace(v.s, "\n", "\\n")
      [] v.type = "Int" -> I32ToString(v.int)
      [] v.type = "Float" -> F32ToString(v.float)
      [] v.type = "Enum" ->
            IF v.index + 1 \in 1..Len(v.options) THEN v.options[v.index + 1] ELSE ""
      [] v.type = "Flags" ->
            IF Len(v.indicies) = 0 THEN "0"
            ELSE Join(FilterMapGet(v.indicies, v.options), ", ")

RangeLine(start, end) == "# Acceptable value range: From " \o start \o " to " \o end

RECURSIVE DescLines(_)
DescLines(lines) ==
    IF Len(lines) = 0 THEN <<>> ELSE <<"## " \o lines[1]>> \o DescLines(Tail(lines))

\* comments without a default line for an entry that has no default
render_entry_comments_some_default(entry, type_name, options) ==
    (IF IsSome(entry.description) THEN DescLines(StrLines(Get(entry.description))) ELSE <<>>)
    \o <<"# Setting type: " \o type_name>>
    \o (IF IsSome(entry.default)
        THEN <<"# Default value: " \o value_to_string(Get(entry.default))>>
        ELSE <<>>)
    \o (IF IsSome(options) THEN <<"# Acceptable values: " \o Join(Get(options), ", ")>> ELSE <<>>)
    \o (CASE entry.value.type = "Flags" -> <<FLAGS_MESSAGE>>
          [] entry.value.type = "Int" /\ IsSome(entry.value.int_range) ->
                <<RangeLine(I32ToString(Get(entry.value.int_range).start),
                            I32ToString(Get(entry.value.int_range).end))>>
          [] entry.value.type = "Float" /\ IsSome(entry.value.float_range) ->
                <<RangeLine(F32ToString(Get(entry.value.float_range).start),
                            F32ToString(Get(entry.value.float_range).end))>>
          [] OTHER -> <<>>)

render_entry_comments(entry, type_name, options) ==
    (IF IsSome(entry.description) THEN DescLines(StrLines(Get(entry.description))) ELSE <<>>)
    \o <<"# Setting type: " \o type_name>>
    \o <<IF IsSome(entry.default)
         THEN "# Default value: " \o value_to_string(Get(entry.default))
         ELSE "# Default value:">>
    \o (IF IsSome(options) THEN <<"# Acceptable values: " \o Join(Get(options), ", ")>> ELSE <<>>)
    \o (CASE entry.value.type = "Flags" -> <<FLAGS_MESSAGE>>
          [] entry.value.type = "Int" /\ IsSome(entry.value.int_range) ->
                <<RangeLine(I32ToString(Get(entry.value.int_range).start),
                            I32ToString(Get(entry.value.int_range).end))>>
          [] entry.value.type = "Float" /\ IsSome(entry.value.float_range) ->
                <<RangeLine(F32ToString(Get(entry.value.float_range).start),
                            F32ToString(Get(entry.value.float_range).end))>>
          [] OTHER -> <<>>)

infer_type_name(entry) ==
    CASE entry.value.type = "Bool" -> "Boolean"
      [] entry.value.type = "String" -> "String"
      [] entry.value.type = "Int" -> "Int32"
      [] entry.value.type = "Float" -> "Single"
      [] entry.value.type = "Enum" -> "String"
      [] entry.value.type = "Flags" -> "String"

value_options(entry) ==
    IF entry.value.type \in {"Enum", "Flags"} THEN Some(entry.value.options) ELSE None

\* ------------------------------------------------------------------------
\* bepinex_cfg.rs: the parser
\* ------------------------------------------------------------------------
METADATA_PREFIX == "## Settings file was created by plugin "

\* read_metadata_line once the prefix is stripped and the rest split on ' '
NameAndVersion(parts) ==
    IF Len(parts) < 2 THEN None
    ELSE Some(<<Join(SubSeq(parts, 1, Len(parts) - 1), " "), parts[Len(parts)]>>)

read_metadata_line(line) ==
    IF StartsWith(line, METADATA_PREFIX)
    THEN NameAndVersion(Split(SubSeq(line, Len(METADATA_PREFIX) + 1, Len(line)), " "))
    ELSE None

\* the locals of parse_reader that live across loop iterations
ParserState(metadata, sections, current_section, pending_builder, pending_desc_lines) ==
    [metadata |-> metadata, sections |-> sections, current_section |-> current_section,
     pending_builder |-> pending_builder, pending_desc_lines |-> pending_desc_lines]

\* parse_reader before its loop
ParserInit == ParserState(None, <<>>, None, None, <<>>)

\* the outcome of one loop iteration: the locals after it and whether it read
\* the line after `line` as the GUID line; or the error it returned; or a panic
Continue(st, took_guid) == [kind |-> "continue", st |-> st, took_guid |-> took_guid]
Return(e) == [kind |-> "return", err |-> e]
Panic(why) == [kind |-> "panic", why |-> why]

\* the `# `-comment branch of the loop: the builder b with the field of `meta` set
RangeField(b, min_max) == IF IsSome(min_max) THEN [b EXCEPT !.range = min_max] ELSE b

MetaField(b, meta) ==
    IF StartsWith(meta, "Setting type: ")
        THEN [b EXCEPT !.type_name = StripPrefix(meta, "Setting type: ")]
    ELSE IF StartsWith(meta, "Default value: ")
        THEN [b EXCEPT !.default_value = StripPrefix(meta, "Default value: ")]
    ELSE IF meta = "Default value:"
        THEN [b EXCEPT !.default_value = None]
    ELSE IF StartsWith(meta, "Acceptable values: ")
        THEN [b EXCEPT !.acceptable_values =
                Some(Split(Get(StripPrefix(meta, "Acceptable values: ")), ", "))]
    ELSE IF StartsWith(meta, "Acceptable value range: From ")
        THEN RangeField(b, SplitOnce(Get(StripPrefix(meta, "Acceptable value range: From ")),
                                     " to "))
    ELSE b

\* a section header test that looks at the opening bracket only
IsSectionHeaderOpen(line) == StartsWith(line, "[")

\* the section header test of the loop
IsSectionHeader(line) == StartsWith(line, "[") /\ EndsWith(line, "]")

\* a section header branch that keeps the open section only if it has entries
SectionHeaderDropEmpty(st, line) ==
    IF 1 > Len(line) - 1
    THEN Panic("slice index starts at 1 but ends at 0")
    ELSE Continue([st EXCEPT
                    !.sections = IF IsSome(st.current_section)
                                    /\ Get(st.current_section).entries # <<>>
                                 THEN Append(@, Get(st.current_section)) ELSE @,
                    !.current_section = Some(Section(SubSeq(line, 2, Len(line) - 1), <<>>))],
                  FALSE)

\* a section header branch that forgets the comment lines read before it
SectionHeaderClearPending(st, line) ==
    IF 1 > Len(line) - 1
    THEN Panic("slice index starts at 1 but ends at 0")
    ELSE Continue([st EXCEPT
                    !.sections = IF IsSome(st.current_section)
                                 THEN Append(@, Get(st.current_section)) ELSE @,
                    !.current_section = Some(Section(SubSeq(line, 2, Len(line) - 1), <<>>)),
                    !.pending_builder = None],
                  FALSE)

\* the section header branch: line[1..line.len() - 1] panics on an empty range
SectionHeader(st, line) ==
    IF 1 > Len(line) - 1
    THEN Panic("slice index starts at 1 but ends at 0")
    ELSE Continue([st EXCEPT
                    !.sections = IF IsSome(st.current_section)
                                 THEN Append(@, Get(st.current_section)) ELSE @,
                    !.current_section = Some(Section(SubSeq(line, 2, Len(line) - 1), <<>>))],
                  FALSE)

\* a metadata header branch that takes the next line only if it is a GUID line
MetadataHeaderPeek(st, md, guid_line) ==
    IF IsSome(md)
    THEN Continue([st EXCEPT !.metadata =
                    Some(Metadata(Get(md)[1], Get(md)[2],
                                  UnwrapOr(StripPrefix(guid_line, "## Plugin GUID: "), "")))],
                  IsSome(StripPrefix(guid_line, "## Plugin GUID: ")))
    ELSE Continue(st, FALSE)

\* a metadata header branch that sets the metadata only if a GUID line follows
MetadataHeaderStrict(st, md, guid_line) ==
    IF IsSome(md)
    THEN Continue([st EXCEPT !.metadata =
                    IF IsSome(StripPrefix(guid_line, "## Plugin GUID: "))
                    THEN Some(Metadata(Get(md)[1], Get(md)[2],
                                       Get(StripPrefix(guid_line, "## Plugin GUID: "))))
                    ELSE @],
                  TRUE)
    ELSE Continue(st, FALSE)

\* the metadata header branch, md being read_metadata_line's result and
\* guid_line the next line of the input ("" at its end)
MetadataHeader(st, md, guid_line) ==
    IF IsSome(md)
    THEN Continue([st EXCEPT !.metadata =
                    Some(Metadata(Get(md)[1], Get(md)[2],
                                  UnwrapOr(StripPrefix(guid_line, "## Plugin GUID: "), "")))],
                  TRUE)
    ELSE Continue(st, FALSE)

\* an entry-line branch that keeps the comment lines for the entries after it
PushEntryKeepPending(st, parsed) ==
    IF ~parsed.ok THEN Return(parsed.err)
    ELSE IF ~IsSome(st.current_section) THEN Return("entry has no section")
    ELSE Continue([st EXCEPT
                    !.pending_desc_lines = <<>>,
                    !.current_section =
                        Some([Get(st.current_section) EXCEPT
                                !.entries = Append(@, Entry(parsed.val.name,
                                                            parsed.val.description,
                                                            parsed.val.default,
                                                            parsed.val.value))])],
                  FALSE)

\* an entry-line branch that drops an entry met before any section
PushEntryOrDrop(st, parsed) ==
    IF ~parsed.ok THEN Return(parsed.err)
    ELSE IF ~IsSome(st.current_section)
        THEN Continue([st EXCEPT !.pending_builder = None, !.pending_desc_lines = <<>>],
                      FALSE)
    ELSE Continue([st EXCEPT
                    !.pending_builder = None,
                    !.pending_desc_lines = <<>>,
                    !.current_section =
                        Some([Get(st.current_section) EXCEPT
                                !.entries = Append(@, Entry(parsed.val.name,
                                                            parsed.val.description,
                                                            parsed.val.default,
                                                            parsed.val.value))])],
                  FALSE)

\* the end of the entry-line branch, parsed being b.build()
PushEntry(st, parsed) ==
    IF ~parsed.ok THEN Return(parsed.err)
    ELSE IF ~IsSome(st.current_section) THEN Return("entry has no section")
    ELSE Continue([st EXCEPT
                    !.pending_builder = None,
                    !.pending_desc_lines = <<>>,
                    !.current_section =
                        Some([Get(st.current_section) EXCEPT
                                !.entries = Append(@, Entry(parsed.val.name,
                                                            parsed.val.description,
                                                            parsed.val.default,
                                                            parsed.val.value))])],
                  FALSE)

\* the entry-line branch, name_value being parse_orphaned_entry_line's result
EntryLine(st, name_value) ==
    IF ~IsSome(name_value) THEN Continue(st, FALSE)
    ELSE PushEntry(st,
                   build([UnwrapOr(st.pending_builder, EntryBuilder) EXCEPT
                            !.description = IF Len(st.pending_desc_lines) # 0
                                            THEN Some(Join(st.pending_desc_lines, "\n"))
                                            ELSE @,
                            !.name = Some(Get(name_value)[1]),
                            !.value = Some(Get(name_value)[2])]))

\* a loop body in which an empty line ends the comment block before it
DispatchBlankEndsBlock(st, line, guid_line) ==
    IF line = ""
        THEN Continue([st EXCEPT !.pending_builder = None, !.pending_desc_lines = <<>>], FALSE)
    ELSE IF StartsWith(line, METADATA_PREFIX)
        THEN MetadataHeader(st, read_metadata_line(line), guid_line)
    ELSE IF IsSectionHeader(line) THEN SectionHeader(st, line)
    ELSE IF StartsWith(line, "##")
        THEN Continue([st EXCEPT !.pending_desc_lines =
                        Append(@, Trim(TrimStartMatches(line, "##")))], FALSE)
    ELSE IF line = FLAGS_MESSAGE
        THEN Continue([st EXCEPT !.pending_builder =
                        Some([UnwrapOr(@, EntryBuilder) EXCEPT !.is_flags = TRUE])], FALSE)
    ELSE IF StartsWith(line, "# ")
        THEN Continue([st EXCEPT !.pending_builder =
                        Some(MetaField(UnwrapOr(@, EntryBuilder),
                                       SubSeq(line, 3, Len(line))))], FALSE)
    ELSE EntryLine(st, parse_orphaned_entry_line(line))

\* the body of the loop of parse_reader on `line`, guid_line being the line
\* after it, both without their line ends
Dispatch(st, line, guid_line) ==
    IF line = "" THEN Continue(st, FALSE)
    ELSE IF StartsWith(line, METADATA_PREFIX)
        THEN MetadataHeader(st, read_metadata_line(line), guid_line)
    ELSE IF IsSectionHeader(line) THEN SectionHeader(st, line)
    ELSE IF StartsWith(line, "##")
        THEN Continue([st EXCEPT !.pending_desc_lines =
                        Append(@, Trim(TrimStartMatches(line, "##")))], FALSE)
    ELSE IF line = FLAGS_MESSAGE
        THEN Continue([st EXCEPT !.pending_builder =
                        Some([UnwrapOr(@, EntryBuilder) EXCEPT !.is_flags = TRUE])], FALSE)
    ELSE IF StartsWith(line, "# ")
        THEN Continue([st EXCEPT !.pending_builder =
                        Some(MetaField(UnwrapOr(@, EntryBuilder),
                                       SubSeq(line, 3, Len(line))))], FALSE)
    ELSE EntryLine(st, parse_orphaned_entry_line(line))

\* one iteration of the loop of parse_reader on the line read, `next` being what
\* the following read_line would give: Some(line), or None at the end of input
LoopBody(st, raw, next) ==
    Dispatch(st, StripEol(raw), IF IsSome(next) THEN StripEol(Get(next)) ELSE "")

\* parse_reader after its loop: the open section is flushed
Finish(st) ==
    FileData(st.metadata,
             IF IsSome(st.current_section)
             THEN Append(st.sections, Get(st.current_section)) ELSE st.sections)

\* parse_reader from line i of the input on; r is the outcome of the iteration on line i
RECURSIVE ParseFrom(_, _, _)
ParseNext(r, lines, i) ==
    IF r.kind = "continue"
        THEN ParseFrom(r.st, lines, IF r.took_guid THEN i + 2 ELSE i + 1)
    ELSE IF r.kind = "return" THEN Err(r.err)
    ELSE [ok |-> FALSE, err |-> r.why, panic |-> TRUE]

ParseFrom(st, lines, i) ==
    IF i > Len(lines) THEN Ok(Finish(st))
    ELSE ParseNext(LoopBody(st, lines[i],
                            IF i < Len(lines) THEN Some(lines[i + 1]) ELSE None),
                   lines, i)

parse_reader(lines) == ParseFrom(ParserInit, lines, 1)

\* BufRead::read_line over a Cursor on text: the lines, each without its \n
ReadLines(text) == DropLastEmpty(Split(text, "\n"))

parse(text) == parse_reader(ReadLines(text))

\* ------------------------------------------------------------------------
\* bepinex_cfg.rs: the renderer
\* ------------------------------------------------------------------------
RECURSIVE WriteEntries(_)
WriteEntries(entries) ==
    IF Len(entries) = 0 THEN <<>>
    ELSE render_entry_comments(entries[1], infer_type_name(entries[1]),
                               value_options(entries[1]))
         \o <<entries[1].name \o " = " \o value_to_string(entries[1].value)>>
         \o <<"">>
         \o WriteEntries(Tail(entries))

RECURSIVE WriteSections(_)
WriteSections(sections) ==
    IF Len(sections) = 0 THEN <<>>
    ELSE <<"[" \o sections[1].name \o "]", "">>
         \o WriteEntries(sections[1].entries)
         \o WriteSections(Tail(sections))

\* the vector `out` of write before it is joined
WriteOut(file) ==
    (IF IsSome(file.metadata)
     THEN <<METADATA_PREFIX \o Get(file.metadata).mod_name \o " "
                \o Get(file.metadata).mod_version,
            "## Plugin GUID: " \o Get(file.metadata).mod_guid,
            "">>
     ELSE <<>>)
    \o WriteSections(file.sections)

write(file) == Ok(Join(WriteOut(file), "\n"))

\* ------------------------------------------------------------------------
\* lib.rs: set_bepinex_cfg_entry
\* ------------------------------------------------------------------------
\* struct SetBepInExEntryArgs (rel_path names the one file of the model)
SetBepInExEntryArgs(section, entry, value) ==
    [section |-> section, entry |-> entry, value |-> value]

\* Iterator::find by name: the index (from 1) of the first element named name,
\* 0 if there is none
RECURSIVE FindNamed(_, _, _)
FindNamed(seq, name, i) ==
    IF i > Len(seq) THEN 0
    ELSE IF seq[i].name = name THEN i
    ELSE FindNamed(seq, name, i + 1)

\* a match that gives a new entry the value as its default too
SetEntryAtWithDefault(section, j, args) ==
    IF j # 0
    THEN [section EXCEPT !.entries[j].value = args.value]
    ELSE [section EXCEPT !.entries =
            Append(@, Entry(args.entry, None, Some(args.value), args.value))]

\* the `match section.entries.iter_mut().find(..)`, j being what find gave
SetEntryAt(section, j, args) ==
    IF j # 0
    THEN [section EXCEPT !.entries[j].value = args.value]
    ELSE [section EXCEPT !.entries = Append(@, Entry(args.entry, None, None, args.value))]

SetInSection(section, args) ==
    SetEntryAt(section, FindNamed(section.entries, args.entry, 1), args)

\* the None arm of `match file.sections.iter_mut().find(..)`: a missing
\* section is pushed at the end
PushIfMissing(sections, name) ==
    IF FindNamed(sections, name, 1) # 0 THEN sections
    ELSE Append(sections, Section(name, <<>>))

\* the section that find gave (the first of that name), with the entry set
SetSectionAt(sections, i, args) == [sections EXCEPT ![i] = SetInSection(@, args)]

\* the document set_bepinex_cfg_entry hands to write, from the one it parsed
SetInFile(file_data, args) ==
    [file_data EXCEPT
        !.sections = SetSectionAt(PushIfMissing(@, args.section),
                                  FindNamed(PushIfMissing(@, args.section), args.section, 1),
                                  args)]

\* what a command leaves behind: what it returned, the document it wrote (if it
\* got that far), and the file after it
Outcome(res, written, exists, text) ==
    [result |-> res, written |-> written, exists |-> exists, text |-> text]

\* set_bepinex_cfg_entry from `let new_text = write(&file)?` on
WriteBack(new_file) == Outcome(Ok(TRUE), Some(new_file), TRUE, write(new_file).val)

\* a set_bepinex_cfg_entry that starts from an empty document when the file
\* does not parse
SetParsedOrEmpty(parsed, exists, text_on_disk, args) ==
    IF ~parsed.ok
    THEN WriteBack(SetInFile(FileData(None, <<>>), args))
    ELSE WriteBack(SetInFile(parsed.val, args))

\* set_bepinex_cfg_entry from `let mut file = parse(&text)?` on
SetParsed(parsed, exists, text_on_disk, args) ==
    IF ~parsed.ok
    THEN Outcome(Err(parsed.err), None, exists, text_on_disk)
    ELSE WriteBack(SetInFile(parsed.val, args))

\* set_bepinex_cfg_entry on a file that exists or not, with the text it holds
set_bepinex_cfg_entry(exists, text_on_disk, args) ==
    SetParsed(parse(IF exists THEN text_on_disk ELSE ""), exists, text_on_disk, args)

\* Path::components of a relative path given with / separators: a leading /
\* is RootDir, a leading . is CurDir, .. is ParentDir, empty parts and other .
\* parts are passed over, and any other part is Normal (a Prefix arises from
\* drive and UNC paths on Windows only)
RECURSIVE ComponentsOf(_, _, _)
ComponentsOf(parts, i, has_root) ==
    IF i > Len(parts) THEN <<>>
    ELSE (CASE parts[i] = "" -> <<>>
            [] parts[i] = "." -> (IF i = 1 /\ ~has_root THEN <<"CurDir">> ELSE <<>>)
            [] parts[i] = ".." -> <<"ParentDir">>
            [] OTHER -> <<"Normal">>)
         \o ComponentsOf(parts, i + 1, has_root)

Components(rel) ==
    (IF StartsWith(rel, "/") THEN <<"RootDir">> ELSE <<>>)
    \o ComponentsOf(Split(rel, "/"), 1, StartsWith(rel, "/"))

\* lib.rs is_safe_rel_path: every component is Normal
is_safe_rel_path(rel) == \A i \in 1..Len(Components(rel)) : Components(rel)[i] = "Normal"

\* set_bepinex_cfg_entry from its first line on, for a rel_path that names the
\* file of the model when it is safe
set_bepinex_cfg_entry_at(rel_path, exists, text_on_disk, args) ==
    IF ~is_safe_rel_path(rel_path)
    THEN Outcome(Err("invalid path"), None, exists, text_on_disk)
    ELSE set_bepinex_cfg_entry(exists, text_on_disk, args)

\* ------------------------------------------------------------------------
\* The state machine: read_bepinex_cfg parses the file, whose lines the
\* reader delivers one by one; afterwards set_bepinex_cfg_entry commands
\* edit the file.
\* ------------------------------------------------------------------------
VARIABLES
    pool,               \* the lines a file of this run is made of
    max_lines,          \* the most lines the file of this run has
    file_exists,        \* whether the file is on disk
    file,               \* the text of the file, as far as it has been read
    pos,                \* the number of lines read_line has returned
    eof,                \* whether read_line has returned 0
    metadata,           \* parse_reader's locals
    sections,
    current_section,
    pending_builder,
    pending_desc_lines,
    pc,                 \* "reading", "done", "failed", "panicked"
    result,             \* what parse returned, once it has
    edits,              \* the number of set_bepinex_cfg_entry commands so far
    last                \* the last set_bepinex_cfg_entry: its arguments, the
                        \* file before it, and its outcome

vars == <<pool, max_lines, file_exists, file, pos, eof, metadata, sections, current_section,
          pending_builder, pending_desc_lines, pc, result, edits, last>>

locals == <<metadata, sections, current_section, pending_builder, pending_desc_lines>>

Locals == ParserState(metadata, sections, current_section, pending_builder,
                      pending_desc_lines)

\* the bounds of the model
MaxLines == 4
MaxEdits == 1

\* read_bepinex_cfg on a file of at most n lines drawn from lines: read_to_string
\* fails on a missing file, otherwise parse_reader stands before its loop
InitWith(lines, n) ==
    /\ pool = lines
    /\ max_lines = n
    /\ file_exists \in BOOLEAN
    /\ file = ""
    /\ pos = 0
    /\ eof = FALSE
    /\ metadata = ParserInit.metadata
    /\ sections = ParserInit.sections
    /\ current_section = ParserInit.current_section
    /\ pending_builder = ParserInit.pending_builder
    /\ pending_desc_lines = ParserInit.pending_desc_lines
    /\ pc = IF file_exists THEN "reading" ELSE "failed"
    /\ result = IF file_exists THEN None ELSE Some(Err("NotFound"))
    /\ edits = 0
    /\ last = None

\* the state after the loop iteration with outcome r
Step(r) ==
    IF r.kind = "continue"
    THEN /\ metadata' = r.st.metadata
         /\ sections' = r.st.sections
         /\ current_section' = r.st.current_section
         /\ pending_builder' = r.st.pending_builder
         /\ pending_desc_lines' = r.st.pending_desc_lines
         /\ pc' = pc
         /\ result' = result
    ELSE /\ UNCHANGED locals
         /\ pc' = IF r.kind = "return" THEN "failed" ELSE "panicked"
         /\ result' = Some(Err(IF r.kind = "return" THEN r.err ELSE r.why))

\* the reader after an iteration that read `raw`, and `next` too if took_guid
Consume(raw, next, took_guid) ==
    /\ IsSome(next) => took_guid /\ pos + 2 <= max_lines
    /\ file' = file \o raw \o "\n" \o (IF IsSome(next) THEN Get(next) \o "\n" ELSE "")
    /\ pos' = pos + (IF IsSome(next) THEN 2 ELSE 1)
    /\ eof' = (took_guid /\ ~IsSome(next))

Iterate(raw, next, r) ==
    /\ Consume(raw, next, r.kind = "continue" /\ r.took_guid)
    /\ Step(r)

\* one iteration of the loop of parse_reader: read_line returns `raw`, and the
\* iteration reads `next` too when `raw` is a metadata header
ReadLine ==
    /\ pc = "reading"
    /\ ~eof
    /\ pos < max_lines
    /\ \E raw \in pool, next \in {None} \cup {Some(l) : l \in pool} :
         Iterate(raw, next, LoopBody(Locals, raw, next))
    /\ UNCHANGED <<pool, max_lines, file_exists, edits, last>>

\* read_line returns 0: parse_reader leaves its loop and returns the document
ReadEnd ==
    /\ pc = "reading"
    /\ pc' = "done"
    /\ eof' = TRUE
    /\ result' = Some(Ok(Finish(Locals)))
    /\ UNCHANGED <<pool, max_lines, file_exists, file, pos, locals, edits, last>>

\* the arguments of the set_bepinex_cfg_entry commands of the model
ArgSections == {"S", "T"}
ArgEntries == {"K", "N"}
ArgValues == {ValueBool(TRUE), ValueInt(7, None), ValueString(" a")}

\* the file and the record of the command after it, r being its outcome
Command(args, r) ==
    /\ file_exists' = r.exists
    /\ file' = r.text
    /\ last' = Some([args |-> args, exists |-> file_exists, text |-> file,
                     written |-> r.written, result |-> r.result])

\* a set_bepinex_cfg_entry command, once the file is read
SetEntry ==
    /\ pc \in {"done", "failed"}
    /\ edits < MaxEdits
    /\ \E section \in ArgSections, entry \in ArgEntries, value \in ArgValues :
         Command(SetBepInExEntryArgs(section, entry, value),
                 set_bepinex_cfg_entry(file_exists, file,
                                       SetBepInExEntryArgs(section, entry, value)))
    /\ edits' = edits + 1
    /\ UNCHANGED <<pool, max_lines, pos, eof, locals, pc, result>>

\* the enum-like values of the commands: an index beyond the options, one of
\* them with an empty option, and flags with none and with one of them set
ArgChoices ==
    {ValueEnum(5, <<"A", "B", "C">>), ValueEnum(2, <<"A", "">>),
     ValueEnum(1, <<"A", "B", "C">>), ValueFlags(<<>>, <<"A", "B">>),
     ValueFlags(<<1>>, <<"A", "B">>)}

\* a set_bepinex_cfg_entry command with an enum-like value
SetChoice ==
    /\ pc \in {"done", "failed"}
    /\ edits < MaxEdits
    /\ \E section \in ArgSections, entry \in ArgEntries, value \in ArgChoices :
         Command(SetBepInExEntryArgs(section, entry, value),
                 set_bepinex_cfg_entry(file_exists, file,
                                       SetBepInExEntryArgs(section, entry, value)))
    /\ edits' = edits + 1
    /\ UNCHANGED <<pool, max_lines, pos, eof, locals, pc, result>>

\* values of every variant, with and without a range
ArgVariants ==
    {ValueBool(FALSE), ValueString("a"), ValueInt(7, None), ValueInt(7, Some(Range(0, 10))),
     ValueFloat(ParseF32("1.5").val, Some(Range(ParseF32("0").val, ParseF32("2.5").val))),
     ValueEnum(1, <<"A", "B">>), ValueFlags(<<0>>, <<"A", "B">>)}

\* a set_bepinex_cfg_entry command on the entry K of the section S
SetVariant ==
    /\ pc \in {"done", "failed"}
    /\ edits < MaxEdits
    /\ \E value \in ArgVariants :
         Command(SetBepInExEntryArgs("S", "K", value),
                 set_bepinex_cfg_entry(file_exists, file, SetBepInExEntryArgs("S", "K", value)))
    /\ edits' = edits + 1
    /\ UNCHANGED <<pool, max_lines, pos, eof, locals, pc, result>>

\* relative paths: the one of the file of the model, and paths with a
\* ParentDir, a RootDir and a CurDir component
ArgPaths == {"a.cfg", "../a.cfg", "a.cfg/..", "/a.cfg", "./a.cfg"}

\* a set_bepinex_cfg_entry command with its rel_path
SetPath ==
    /\ pc \in {"done", "failed"}
    /\ edits < MaxEdits
    /\ \E rel_path \in ArgPaths, value \in ArgValues :
         Command([rel_path |-> rel_path, section |-> "S", entry |-> "K", value |-> value],
                 set_bepinex_cfg_entry_at(rel_path, file_exists, file,
                                          SetBepInExEntryArgs("S", "K", value)))
    /\ edits' = edits + 1
    /\ UNCHANGED <<pool, max_lines, pos, eof, locals, pc, result>>

NextParse == ReadLine \/ ReadEnd
Next == ReadLine \/ ReadEnd \/ SetEntry
NextVariant == ReadLine \/ ReadEnd \/ SetVariant
NextPath == ReadLine \/ ReadEnd \/ SetPath
NextChoice == ReadLine \/ ReadEnd \/ SetChoice

\* ------------------------------------------------------------------------
\* The specifications: the same program on files of different lines
\* ------------------------------------------------------------------------
\* the most lines of a file that is edited afterwards
MaxEditLines == 3

\* files for the edits: sections and entries of the names the commands use
EditLines == {"[S]", "[T]", "K = 1", "# Default value: 2"}
Init == InitWith(EditLines, MaxEditLines)
Spec == Init /\ [][Next]_vars

\* the scenario of the specification's section 8, in both spellings of the booleans
ScenarioLines ==
    {"[Section1]", "# Setting type: Boolean", "# Default value: True", "Key1 = False",
     "# Default value: true", "Key1 = false"}
InitScenario == InitWith(ScenarioLines, MaxLines)
SpecScenario == InitScenario /\ [][NextParse]_vars

\* degenerate lines: lone brackets, a lone =, a lone #, an empty line, and a
\* metadata header, which may come last
ParseLines ==
    {"[", "[]", "=", "#", "", "## Settings file was created by plugin a b", "[S]", "K = 1"}
InitParse == InitWith(ParseLines, MaxLines)
SpecParse == InitParse /\ [][NextParse]_vars

\* Boolean entries, by hint and by first character, with texts that are
\* booleans only up to case or not at all
BoolLines ==
    {"[S]", "# Setting type: Boolean", "# Default value: True", "# Default value:  true ",
     "# Acceptable values: true, false", "K = true", "K = False", "K = 1", "K = tRUE"}
InitBool == InitWith(BoolLines, MaxLines)
SpecBool == InitBool /\ [][NextParse]_vars

\* Int32 entries, by hint and by first character, with texts at and beyond the
\* ends of the 32-bit range
IntLines ==
    {"[S]", "# Setting type: Int32", "# Default value: -2147483649", "# Default value:  +7 ",
     "# Acceptable value range: From -5 to 1x", "# Acceptable value range: From 0 to 10",
     "K = 2147483647", "K = 2147483648", "K = -2147483648"}
InitInt == InitWith(IntLines, MaxLines)
SpecInt == InitInt /\ [][NextParse]_vars

\* entries of every kind of value, one of them under a type name the parser
\* does not know, whose value holds a backslash and an n
RoundTripLines ==
    {"[S]", "# Setting type: KeyCode", "# Default value: 1", "# Acceptable values: A, B",
     "## d", "K = a\\nb", "K = 1", "K = B"}
InitRoundTrip == InitWith(RoundTripLines, MaxLines)
SpecRoundTrip == InitRoundTrip /\ [][NextParse]_vars

\* the most lines of a file of entries without type hints
MaxTypingLines == 5

\* entries without type hints, of every first character the inference tells apart
TypingLines ==
    {"[S]", "X = true", "X = 12", "X = 1.5", "X = hello", "X = -3", "X =", "X = 1x."}
InitTyping == InitWith(TypingLines, MaxTypingLines)
SpecTyping == InitTyping /\ [][NextParse]_vars

\* files for the commands that set enum-like values
ChoiceEditLines == {"[S]", "# Acceptable values: A, B, C", "# Default value: B", "K = C"}
InitChoiceEdit == InitWith(ChoiceEditLines, MaxEditLines)
SpecChoiceEdit == InitChoiceEdit /\ [][NextChoice]_vars

\* the most lines of a file of flags entries
MaxFlagsLines == 5

\* entries with an option list, with and without the flags marker and a
\* default; one option is the text 0, one option comes twice
FlagsLines ==
    {"[S]", "# Acceptable values: 0, A, C, A", FLAGS_MESSAGE, "# Default value: A, C",
     "K = x", "K = C, x, A"}
InitFlags == InitWith(FlagsLines, MaxFlagsLines)
SpecFlags == InitFlags /\ [][NextParse]_vars

\* entries with an option list and no flags marker, under a type hint too
EnumLines ==
    {"[S]", "# Acceptable values: A, B, A, C", "# Setting type: Int32", "# Default value: C",
     "K = A", "K = x", "K = C"}
InitEnum == InitWith(EnumLines, MaxLines)
SpecEnum == InitEnum /\ [][NextParse]_vars

\* Single entries, by hint and by first character, with commas and points
FloatLines ==
    {"[S]", "# Setting type: Single", "# Default value: 0,5",
     "# Acceptable value range: From 0,5 to 10", "K = 3,14", "K = 3.14", "K = 1,2,3",
     "K = 1.5"}
InitFloat == InitWith(FloatLines, MaxLines)
SpecFloat == InitFloat /\ [][NextParse]_vars

\* metadata headers of two plugins, a GUID line, and the lines of a section; a
\* header may come anywhere
MetaLines ==
    {"## Settings file was created by plugin a b", "## Settings file was created by plugin c d",
     "## Plugin GUID: g", "[S]", "K = 1", ""}
InitMeta == InitWith(MetaLines, MaxLines)
SpecMeta == InitMeta /\ [][NextParse]_vars

\* entries under each of the four type hints, with value texts whose first
\* character stands for another type, and a description line
HintLines ==
    {"[S]", "# Setting type: String", "# Setting type: Boolean", "# Setting type: Int32",
     "# Setting type: Single", "##Settings file was created by plugin a b",
     "K = 12", "K = true", "K = x"}
InitHint == InitWith(HintLines, MaxLines)
SpecHint == InitHint /\ [][NextParse]_vars

\* comment lines of every kind, a section header, an empty line, a line
\* without = and an entry line, in any order
PendingLines ==
    {"[S]", "## d", "# Setting type: String", "# Default value: 1",
     "# Acceptable values: A, B", FLAGS_MESSAGE, "# Acceptable value range: From 0 to 5",
     "x", "", "K = 1"}
InitPending == InitWith(PendingLines, MaxLines)
SpecPending == InitPending /\ [][NextParse]_vars

\* files with a metadata header, a description and a default, for commands
\* that set values of every variant
VariantLines ==
    {"## Settings file was created by plugin a b", "[S]", "## d", "# Default value: 2", "K = 1"}
InitVariant == InitWith(VariantLines, MaxEditLines)
SpecVariant == InitVariant /\ [][NextVariant]_vars

\* a metadata header with two tokens and one with a single token, and lines
\* of every kind that may come after them
GuidLines ==
    {"## Settings file was created by plugin a b", "## Settings file was created by plugin a",
     "## Plugin GUID: g", "[S]", "## d", "# Default value: 2", "K = 1"}
InitGuid == InitWith(GuidLines, MaxLines)
SpecGuid == InitGuid /\ [][NextParse]_vars

\* the files for the edits, edited by commands that name a path
SpecPath == Init /\ [][NextPath]_vars

\* entries under type names the parser knows and one it does not know, with a
\* value and a default that hold a backslash and an n
TypeNameLines ==
    {"[S]", "# Setting type: KeyCode", "# Setting type: Number", "# Setting type: Double",
     "# Setting type: String", "# Default value: 1\\n", "K = a\\nb", "K = 12"}
InitTypeName == InitWith(TypeNameLines, MaxLines)
SpecTypeName == InitTypeName /\ [][NextParse]_vars

\* ------------------------------------------------------------------------
\* What the claims speak of
\* ------------------------------------------------------------------------
\* the document parse returned
Doc == Get(result).val
Parsed == pc = "done"
Failed == pc = "failed"

\* the document of the scenario: one section Section1 with one entry Key1,
\* no description, default Bool(true), value Bool(false)
ScenarioDoc ==
    FileData(None, <<Section("Section1",
                             <<Entry("Key1", None, Some(ValueBool(TRUE)), ValueBool(FALSE))>>)>>)

ScenarioUpper == "[Section1]\n# Setting type: Boolean\n# Default value: True\nKey1 = False\n"
ScenarioLower == "[Section1]\n# Setting type: Boolean\n# Default value: true\nKey1 = false\n"

\* C9 as claimed: the four lines with True and False parse to the scenario's document
C9_ScenarioParsesAsClaimed ==
    (file = ScenarioUpper /\ pc # "reading") => (Parsed /\ Doc = ScenarioDoc)

\* C9 amended: the four lines parse to the scenario's document when the booleans
\* are spelled true and false; spelled True and False, parse returns an error
C9_ScenarioParses ==
    /\ (file = ScenarioLower /\ pc # "reading") => (Parsed /\ Doc = ScenarioDoc)
    /\ (file = ScenarioUpper /\ pc # "reading") => (Failed /\ ~Get(result).ok)

C9_Witness == file = ScenarioLower /\ Parsed /\ Doc = ScenarioDoc

\* C10 as claimed: write gives the four lines with True and False, and a final
\* empty line, for the scenario's document
C10_ScenarioWritesAsClaimed ==
    (Parsed /\ Doc = ScenarioDoc) =>
        WriteOut(Doc) = <<"[Section1]", "# Setting type: Boolean", "# Default value: True",
                          "Key1 = False", "">>

\* C10 amended: write gives for the scenario's document the lines [Section1],
\* an empty line, # Setting type: Boolean, # Default value: true, Key1 = false
\* and a final empty line, joined by line feeds
C10_ScenarioWrites ==
    (Parsed /\ Doc = ScenarioDoc) =>
        /\ WriteOut(Doc) = <<"[Section1]", "", "# Setting type: Boolean",
                             "# Default value: true", "Key1 = false", "">>
        /\ write(Doc) =
             Ok("[Section1]\n\n# Setting type: Boolean\n# Default value: true\nKey1 = false\n")

C10_Witness == Parsed /\ Doc = ScenarioDoc /\ Len(WriteOut(Doc)) = 6

\* ------------------------------------------------------------------------
\* The steps of the parser the claims speak of
\* ------------------------------------------------------------------------
\* the line a step of the loop read
LineRead == SubSeq(file', Len(file) + 1, Len(file') - 1)

\* a line that reaches the entry-line branch and holds an =
IsEntryLine(l) ==
    /\ l # ""
    /\ ~StartsWith(l, "##")
    /\ ~StartsWith(l, "# ")
    /\ l # FLAGS_MESSAGE
    /\ ~(StartsWith(l, "[") /\ EndsWith(l, "]"))
    /\ Contains(l, "=")

\* the step reads an entry line
EntryRead == pc = "reading" /\ pos' = pos + 1 /\ IsEntryLine(LineRead)

\* the name and the value text of the entry line read
EntryName == Trim(Get(SplitOnce(LineRead, "="))[1])
EntryText == Trim(Get(SplitOnce(LineRead, "="))[2])

\* the comment lines pending before the step
Pending == UnwrapOr(pending_builder, EntryBuilder)

\* the type of the entry read: the hint, or what the first character tells
EntryType == UnwrapOr(Pending.type_name, check_value_type(EntryText))

\* the sections so far, the open one last
Sects == sections \o (IF IsSome(current_section) THEN <<Get(current_section)>> ELSE <<>>)

\* the entry the step appended
NewEntry == Get(current_section').entries[Len(Get(current_section').entries)]

\* C5: parse never panics, on lone brackets, a lone =, a lone # or a metadata
\* header as the last line too; each iteration of its loop consumes a line or
\* ends the pass, and the pass ends in a document or an error
C5_ParseTotal ==
    /\ [](pc # "panicked")
    /\ [](pc \in {"done", "failed"} => IsSome(result) /\ Get(result).ok = (pc = "done"))
    /\ [][pc = "reading" => (pos' > pos \/ pc' = "done")]_vars
    /\ [][pc # "reading" => pc' = pc /\ pos' = pos]_vars

C5_Witness ==
    /\ Parsed
    /\ file = "[\n[]\n#\n## Settings file was created by plugin a b\n"
    /\ Doc.sections = <<Section("", <<>>)>>

\* C6: an entry line read while no section is open makes parse fail; otherwise
\* the entry goes to the end of the open section and to no other, and no other
\* step adds an entry or changes a section that was closed
C6_EntryNeedsSection ==
    [][pc = "reading" =>
        /\ EntryRead /\ ~IsSome(current_section) => pc' = "failed" /\ ~Get(result').ok
        /\ EntryRead /\ IsSome(current_section) /\ pc' = "reading" =>
             /\ Len(Sects') = Len(Sects)
             /\ \A i \in 1..(Len(Sects) - 1) : Sects'[i] = Sects[i]
             /\ Sects'[Len(Sects)].name = Sects[Len(Sects)].name
             /\ Sects'[Len(Sects)].entries
                  = Append(Sects[Len(Sects)].entries, NewEntry)
             /\ NewEntry.name = EntryName
        /\ ~EntryRead /\ pc' = "reading" =>
             /\ Len(Sects') >= Len(Sects)
             /\ \A i \in 1..Len(Sects) : Sects'[i] = Sects[i]
             /\ \A i \in (Len(Sects) + 1)..Len(Sects') : Sects'[i].entries = <<>>
        /\ pc' = "done" => Get(result').val.sections = Sects
    ]_vars

C6_Witness ==
    /\ Failed
    /\ file = "K = 1\n"
    /\ result = Some(Err("entry has no section"))

\* the texts of the entry read that its type applies to, each trimmed: the
\* value and, where the comments gave them, the default and the two bounds
DefaultTexts == IF IsSome(Pending.default_value) THEN <<Trim(Get(Pending.default_value))>>
                ELSE <<>>
BoundTexts == IF IsSome(Pending.range)
              THEN <<Trim(Get(Pending.range)[1]), Trim(Get(Pending.range)[2])>>
              ELSE <<>>

\* the step reads an entry of the type named, with no option list
TypedRead(type_name) ==
    EntryRead /\ ~IsSome(Pending.acceptable_values) /\ EntryType = type_name

\* C7: for a Boolean entry with no option list, the value and the default,
\* trimmed, must each be exactly true or false in lower case: then they are
\* the Bool values of that text, and any other text makes parse fail
C7_StrictBooleans ==
    [][TypedRead("Boolean") =>
        IF \A i \in 1..Len(<<EntryText>> \o DefaultTexts) :
              (<<EntryText>> \o DefaultTexts)[i] \in {"true", "false"}
        THEN IsSome(current_section) =>
                /\ pc' = "reading"
                /\ NewEntry.value = ValueBool(EntryText = "true")
                /\ NewEntry.default =
                     (IF DefaultTexts = <<>> THEN None
                      ELSE Some(ValueBool(DefaultTexts[1] = "true")))
        ELSE pc' = "failed" /\ ~Get(result').ok
    ]_vars

C7_Witness ==
    /\ Failed
    /\ file = "[S]\nK = true\n# Setting type: Boolean\nK = False\n"
    /\ Get(current_section).entries = <<Entry("K", None, None, ValueBool(TRUE))>>
    /\ result = Some(Err("provided string was not true or false"))

\* a text of decimal digits with an optional sign
SignOf(t) == IF CharAt(t, 1) \in {"+", "-"} THEN CharAt(t, 1) ELSE ""
DigitsOf(t) == SubSeq(t, Len(SignOf(t)) + 1, Len(t))

\* a <= b for two texts of decimal digits of one length
RECURSIVE DecLeq(_, _)
DecLeq(a, b) ==
    IF a = "" THEN TRUE
    ELSE IF DigitVal(CharAt(a, 1)) # DigitVal(CharAt(b, 1))
        THEN DigitVal(CharAt(a, 1)) < DigitVal(CharAt(b, 1))
    ELSE DecLeq(Tail(a), Tail(b))

\* the text is a decimal integer from -2147483648 to 2147483647
IsI32Text(t) ==
    /\ DigitsOf(t) # ""
    /\ AllDigits(DigitsOf(t))
    /\ \/ Len(TrimStartMatches(DigitsOf(t), "0")) < 10
       \/ /\ Len(TrimStartMatches(DigitsOf(t), "0")) = 10
          /\ DecLeq(TrimStartMatches(DigitsOf(t), "0"),
                    IF SignOf(t) = "-" THEN "2147483648" ELSE "2147483647")

\* the number a decimal integer text stands for, summed with its sign
RECURSIVE DecVal(_, _, _)
DecVal(digits, sign, acc) ==
    IF digits = "" THEN acc
    ELSE DecVal(Tail(digits), sign, acc * 10 + sign * DigitVal(CharAt(digits, 1)))

I32Of(t) == DecVal(DigitsOf(t), IF SignOf(t) = "-" THEN -1 ELSE 1, 0)

\* C8: for an Int32 entry with no option list, the value, the default and the
\* two bounds of the range, trimmed, must each be a decimal integer of 32 bits:
\* then the value is the Int of that number with the range of the comments, and
\* any text that is no number or is out of the 32-bit range makes parse fail
C8_IntCoercion ==
    [][TypedRead("Int32") =>
        IF \A i \in 1..Len(<<EntryText>> \o DefaultTexts \o BoundTexts) :
              IsI32Text((<<EntryText>> \o DefaultTexts \o BoundTexts)[i])
        THEN IsSome(current_section) =>
                /\ pc' = "reading"
                /\ NewEntry.value.type = "Int"
                /\ NewEntry.value.int = I32Of(EntryText)
                /\ NewEntry.value.int_range =
                     (IF BoundTexts = <<>> THEN None
                      ELSE Some(Range(I32Of(BoundTexts[1]), I32Of(BoundTexts[2]))))
                /\ DefaultTexts # <<>> =>
                     /\ IsSome(NewEntry.default)
                     /\ Get(NewEntry.default).type = "Int"
                     /\ Get(NewEntry.default).int = I32Of(DefaultTexts[1])
        ELSE pc' = "failed" /\ ~Get(result').ok
    ]_vars

C8_Witness ==
    /\ Failed
    /\ file = "[S]\n# Setting type: Int32\nK = -2147483648\nK = 2147483648\n"
    /\ Get(current_section).entries = <<Entry("K", None, None, ValueInt(I32Min, None))>>
    /\ ~Get(result).ok

\* ------------------------------------------------------------------------
\* The commands the claims speak of
\* ------------------------------------------------------------------------
\* the last command returned Ok
Edited == IsSome(last) /\ Get(last).result.ok

\* the document of the file before the last command: a missing file is empty
Before == parse(IF Get(last).exists THEN Get(last).text ELSE "").val

\* the document the last command wrote
Written == Get(Get(last).written)

\* the indices of the elements of seq named name
Named(seq, name) == {i \in 1..Len(seq) : seq[i].name = name}

\* the least of a set of indices, 0 for the empty set
First(idx) == IF idx = {} THEN 0 ELSE CHOOSE i \in idx : \A k \in idx : i <= k

\* the first section and in it the first entry the last command names, in doc
SectionAt(doc) == First(Named(doc.sections, Get(last).args.section))
EntryAt(doc) ==
    IF SectionAt(doc) = 0 THEN 0
    ELSE First(Named(doc.sections[SectionAt(doc)].entries, Get(last).args.entry))

\* C4: after a command that returned Ok, the first section named S exists and
\* the first entry named E in it has the value v; S and E are added at the end
\* of the document and of the section if they were missing, E with no default
\* and no description; an entry that was there changes its value only; a
\* missing file counts as an empty document
C4_SetOrCreate ==
    Edited =>
        /\ SectionAt(Written) # 0 /\ EntryAt(Written) # 0
        /\ Written.sections[SectionAt(Written)].entries[EntryAt(Written)].value
             = Get(last).args.value
        /\ Written.metadata = Before.metadata
        /\ ~Get(last).exists => Before = FileData(None, <<>>)
        /\ Written.sections =
             IF SectionAt(Before) = 0
             THEN Append(Before.sections,
                         Section(Get(last).args.section,
                                 <<Entry(Get(last).args.entry, None, None,
                                         Get(last).args.value)>>))
             ELSE IF EntryAt(Before) = 0
             THEN [Before.sections EXCEPT ![SectionAt(Before)].entries =
                     Append(@, Entry(Get(last).args.entry, None, None,
                                     Get(last).args.value))]
             ELSE [Before.sections EXCEPT
                     ![SectionAt(Before)].entries[EntryAt(Before)].value =
                        Get(last).args.value]
        /\ file_exists /\ file = write(Written).val

C4_Witness ==
    /\ Edited
    /\ Get(last).text = "[S]\nK = 1\nK = 1\n"
    /\ Get(last).args = SetBepInExEntryArgs("S", "K", ValueBool(TRUE))
    /\ Written.sections = <<Section("S", <<Entry("K", None, None, ValueBool(TRUE)),
                                           Entry("K", None, None, ValueInt(1, None))>>)>>

\* the file after the last command, parsed again
After == parse(file)

\* C3: after a command that returned Ok on an entry that was in the file, the
\* file parses to the sections and entries it had, in their order, and only the
\* value of that entry may differ: its default and description and every other
\* entry are as before
C3_EditPreservesRest ==
    (Edited /\ Get(last).exists /\ EntryAt(Before) # 0) =>
        /\ After.ok
        /\ Len(After.val.sections) = Len(Before.sections)
        /\ \A i \in 1..Len(Before.sections) :
             /\ After.val.sections[i].name = Before.sections[i].name
             /\ Len(After.val.sections[i].entries) = Len(Before.sections[i].entries)
             /\ \A j \in 1..Len(Before.sections[i].entries) :
                  /\ After.val.sections[i].entries[j].name
                       = Before.sections[i].entries[j].name
                  /\ After.val.sections[i].entries[j].default
                       = Before.sections[i].entries[j].default
                  /\ After.val.sections[i].entries[j].description
                       = Before.sections[i].entries[j].description
                  /\ <<i, j>> # <<SectionAt(Before), EntryAt(Before)>> =>
                       After.val.sections[i].entries[j].value
                         = Before.sections[i].entries[j].value

\* the text write gives for a document, and that text parsed
Rendered(x) == write(x).val
Reparsed(x) == parse(Rendered(x))

\* write after parse leaves the rendered text of x as it is, if it parses
FixedPoint(x) == Reparsed(x).ok => write(Reparsed(x).val) = Ok(Rendered(x))

\* C2: for the document parse returned and for the document a command wrote,
\* if the rendered text parses, rendering what it parses to gives the same text
C2_RenderIdempotent ==
    /\ Parsed => FixedPoint(Doc)
    /\ Edited => FixedPoint(Written)

\* the two documents have the same sections in the same order, each with the
\* same entries in the same order, of the same name, value and default
SameEntries(x, y) ==
    /\ Len(x.sections) = Len(y.sections)
    /\ \A i \in 1..Len(x.sections) :
         /\ x.sections[i].name = y.sections[i].name
         /\ Len(x.sections[i].entries) = Len(y.sections[i].entries)
         /\ \A j \in 1..Len(x.sections[i].entries) :
              /\ x.sections[i].entries[j].name = y.sections[i].entries[j].name
              /\ x.sections[i].entries[j].value = y.sections[i].entries[j].value
              /\ x.sections[i].entries[j].default = y.sections[i].entries[j].default

\* C1: the document parse returned, rendered by write and parsed again, gives
\* a document of the same sections and entries, with the same names, values
\* and defaults
C1_RoundTrip ==
    Parsed => Reparsed(Doc).ok /\ SameEntries(Reparsed(Doc).val, Doc)

\* ------------------------------------------------------------------------
\* Types, options and metadata
\* ------------------------------------------------------------------------
\* the kind of value the first character of a value text stands for
HeuristicKind(t) ==
    IF \E d \in 0..9 : CharAt(t, 1) = DigitChar(d)
        THEN (IF \E i \in 1..Len(t) : CharAt(t, i) = "." THEN "Float" ELSE "Int")
    ELSE IF CharAt(t, 1) = "t" \/ CharAt(t, 1) = "f" THEN "Bool"
    ELSE "String"

\* C11: an entry line with no type hint and no option list pending gets the
\* kind its first character stands for: Float for a digit with a point
\* anywhere in the text, Int for a digit without, Bool for t or f, String for
\* anything else, which never fails; X = true, X = 12, X = 1.5 and X = hello
\* parse as Bool, Int, Float and String
C11_HeuristicTyping ==
    /\ [][(EntryRead /\ ~IsSome(Pending.type_name) /\ ~IsSome(Pending.acceptable_values)) =>
            /\ pc' = "reading" => NewEntry.value.type = HeuristicKind(EntryText)
            /\ (HeuristicKind(EntryText) = "String" /\ IsSome(current_section)) =>
                 pc' = "reading"
         ]_vars
    /\ [](file = "[S]\nX = true\nX = 12\nX = 1.5\nX = hello\n" /\ pc # "reading" =>
            /\ Parsed
            /\ Doc.sections =
                 <<Section("S", <<Entry("X", None, None, ValueBool(TRUE)),
                                  Entry("X", None, None, ValueInt(12, None)),
                                  Entry("X", None, None, ValueFloat(F32Num(FALSE, 15, 1), None)),
                                  Entry("X", None, None, ValueString("hello"))>>)>>)

C11_Witness ==
    /\ Parsed
    /\ file = "[S]\nX = -3\nX =\nX = 1.5\nX = true\n"
    /\ Doc.sections[1].entries[1].value = ValueString("-3")
    /\ Doc.sections[1].entries[2].value = ValueString("")

\* the last command set an Enum whose index is no position in its options
SetBeyond ==
    /\ Edited
    /\ Get(last).args.value.type = "Enum"
    /\ Get(last).args.value.index >= Len(Get(last).args.value.options)

\* the entry of the last command in the document doc
EditedEntry(doc) == doc.sections[SectionAt(Written)].entries[EntryAt(Written)]

\* C12: an Enum whose index is no position in its options is written with an
\* empty value text and without error, and the file written parses to Enum
\* with index 0 and the same options for that entry
C12_EnumBeyondOptions ==
    SetBeyond =>
        /\ value_to_string(Get(last).args.value) = ""
        /\ Contains(file, "\n" \o Get(last).args.entry \o " = \n")
        /\ After.ok
        /\ EditedEntry(After.val).value = ValueEnum(0, Get(last).args.value.options)

\* the entries parsed so far
Entries ==
    UNION {{Sects[i].entries[j] : j \in 1..Len(Sects[i].entries)} : i \in 1..Len(Sects)}

\* C13: for the options of every entry parsed, Flags with no index is written
\* as the text 0, and the text 0 read as flags with the same options gives
\* Flags with no index
C13_EmptyFlags ==
    \A e \in Entries :
        (e.value.type = "Flags" /\ e.value.indicies = <<>>) =>
            /\ value_to_string(e.value) = "0"
            /\ parse_enum("0", e.value.options, TRUE) = ValueFlags(<<>>, e.value.options)

EnumLike == {"Enum", "Flags"}

\* the step reads an entry while an option list is pending, with the flags
\* marker or without
ChoiceRead(is_flags) ==
    EntryRead /\ IsSome(Pending.acceptable_values) /\ Pending.is_flags = is_flags

\* C17: every entry parsed that has a default and whose default or value is
\* enum-like has both of one enum-like kind and with one and the same option
\* list, the list of the Acceptable values comment pending when it was read
C17_SharedOptions ==
    /\ [](\A e \in Entries :
            (IsSome(e.default)
                /\ (Get(e.default).type \in EnumLike \/ e.value.type \in EnumLike)) =>
            /\ Get(e.default).type = e.value.type
            /\ e.value.type \in EnumLike
            /\ Get(e.default).options = e.value.options)
    /\ [][(EntryRead /\ pc' = "reading") =>
            IF IsSome(Pending.acceptable_values)
            THEN /\ NewEntry.value.type \in EnumLike
                 /\ NewEntry.value.options = Get(Pending.acceptable_values)
            ELSE NewEntry.value.type \notin EnumLike
         ]_vars

C17_Witness ==
    /\ Parsed
    /\ file = "[S]\n# Acceptable values: 0, A, C, A\n" \o FLAGS_MESSAGE
                \o "\n# Default value: A, C\nK = C, x, A\n"
    /\ Doc.sections[1].entries[1].default
         = Some(ValueFlags(<<1, 2>>, <<"0", "A", "C", "A">>))
    /\ Doc.sections[1].entries[1].value = ValueFlags(<<2, 1>>, <<"0", "A", "C", "A">>)

\* the index of the first option equal to the text, 0 if there is none
FirstEqual(options, t) ==
    IF \E i \in 1..Len(options) : options[i] = t
    THEN (CHOOSE i \in 1..Len(options) :
            options[i] = t /\ \A k \in 1..(i - 1) : options[k] # t) - 1
    ELSE 0

\* C18: an entry read while an option list is pending and the flags marker is
\* not is no cause for parse to fail, whatever the type hint; its value, and
\* its default if one is pending, is Enum with the pending options and the
\* index of the first option equal to the raw text, 0 if no option equals it
C18_SingleChoice ==
    [][ChoiceRead(FALSE) =>
        /\ IsSome(current_section) => pc' = "reading"
        /\ pc' = "reading" =>
             /\ NewEntry.value =
                  ValueEnum(FirstEqual(Get(Pending.acceptable_values), EntryText),
                            Get(Pending.acceptable_values))
             /\ NewEntry.default =
                  (IF IsSome(Pending.default_value)
                   THEN Some(ValueEnum(FirstEqual(Get(Pending.acceptable_values),
                                                  Get(Pending.default_value)),
                                       Get(Pending.acceptable_values)))
                   ELSE None)
    ]_vars

C18_Witness ==
    /\ Parsed
    /\ file = "[S]\n# Acceptable values: A, B, A, C\n# Setting type: Int32\nK = x\n"
    /\ Doc.sections[1].entries[1].value = ValueEnum(0, <<"A", "B", "A", "C">>)

\* the tokens of a raw text that are options, in their order
IsOption(options, t) == \E i \in 1..Len(options) : options[i] = t
KnownTokens(options, text) == SelectSeq(Split(text, ", "), LAMBDA t : IsOption(options, t))

\* the indices are, token by token, the first positions of the tokens of the
\* text that are options
FlagsOf(options, indicies, text) ==
    /\ Len(indicies) = Len(KnownTokens(options, text))
    /\ \A k \in 1..Len(indicies) :
         /\ indicies[k] \in 0..(Len(options) - 1)
         /\ options[indicies[k] + 1] = KnownTokens(options, text)[k]
         /\ \A i \in 1..indicies[k] : options[i] # KnownTokens(options, text)[k]

\* C19: an entry read while an option list and the flags marker are pending
\* is no cause for parse to fail; its value, and its default if one is
\* pending, is Flags with the pending options, whose indices are the first
\* positions of the tokens of the raw text split on comma and space, in token
\* order, the tokens that are no option left out
C19_MultiChoice ==
    [][ChoiceRead(TRUE) =>
        /\ IsSome(current_section) => pc' = "reading"
        /\ pc' = "reading" =>
             /\ NewEntry.value.type = "Flags"
             /\ NewEntry.value.options = Get(Pending.acceptable_values)
             /\ FlagsOf(Get(Pending.acceptable_values), NewEntry.value.indicies, EntryText)
             /\ IsSome(Pending.default_value) =>
                  /\ Get(NewEntry.default).type = "Flags"
                  /\ Get(NewEntry.default).options = Get(Pending.acceptable_values)
                  /\ FlagsOf(Get(Pending.acceptable_values), Get(NewEntry.default).indicies,
                             Get(Pending.default_value))
    ]_vars

C19_Witness ==
    /\ Parsed
    /\ file = "[S]\n# Acceptable values: 0, A, C, A\n" \o FLAGS_MESSAGE \o "\nK = C, x, A\n"
    /\ Doc.sections[1].entries[1].value = ValueFlags(<<2, 1>>, <<"0", "A", "C", "A">>)

\* the text with a point for every comma
RECURSIVE Dotted(_)
Dotted(t) ==
    IF t = "" THEN ""
    ELSE (IF CharAt(t, 1) = "," THEN "." ELSE CharAt(t, 1)) \o Dotted(Tail(t))

\* the Float values among the entries parsed so far, defaults too
Floats ==
    {e.value : e \in {e \in Entries : e.value.type = "Float"}}
    \cup {Get(e.default) : e \in {e \in Entries : IsSome(e.default)
                                                  /\ Get(e.default).type = "Float"}}

\* C14: for a Single entry with no option list the value, the default and the
\* bounds are read as the same texts with a point for every comma are read, so
\* 3,14 is the Float of 3.14; no Float is written with a comma, and 3.14 is
\* written 3.14
C14_LocaleFloats ==
    /\ [][TypedRead("Single") =>
            IF \A i \in 1..Len(<<EntryText>> \o DefaultTexts \o BoundTexts) :
                  ParseF32(Dotted((<<EntryText>> \o DefaultTexts \o BoundTexts)[i])).ok
            THEN IsSome(current_section) =>
                    /\ pc' = "reading"
                    /\ NewEntry.value =
                         ValueFloat(ParseF32(Dotted(EntryText)).val,
                                    IF BoundTexts = <<>> THEN None
                                    ELSE Some(Range(ParseF32(Dotted(BoundTexts[1])).val,
                                                    ParseF32(Dotted(BoundTexts[2])).val)))
                    /\ DefaultTexts # <<>> =>
                         /\ Get(NewEntry.default).type = "Float"
                         /\ Get(NewEntry.default).float = ParseF32(Dotted(DefaultTexts[1])).val
            ELSE pc' = "failed" /\ ~Get(result').ok
         ]_vars
    /\ [](\A v \in Floats :
            /\ ~Contains(value_to_string(v), ",")
            /\ v.float = ParseF32("3.14").val => value_to_string(v) = "3.14")

C14_Witness ==
    /\ Parsed
    /\ file = "[S]\n# Setting type: Single\nK = 3,14\nK = 3.14\n"
    /\ Doc.sections[1].entries[1].value = ValueFloat(F32Num(FALSE, 314, 2), None)
    /\ Doc.sections[1].entries[2].value = Doc.sections[1].entries[1].value
    /\ Contains(write(Doc).val, "\nK = 3.14\n")
    /\ ~Contains(write(Doc).val, ",")

\* C15: the metadata is set by nothing but a header at the beginning of the
\* file, before which there are empty lines at most, and is not set again
C15_MetadataOnlyAtStart ==
    [][metadata' # metadata => TrimStartMatches(file, "\n") = ""]_vars

\* the lines of the file read
FileLines == ReadLines(file)

\* the file begins with a metadata header that no GUID line follows
HeaderWithoutGuid ==
    /\ StartsWith(file, METADATA_PREFIX)
    /\ Len(FileLines) >= 2 => ~StartsWith(FileLines[2], "## Plugin GUID: ")

\* the same text with a GUID line after the header
WithGuid ==
    Join(<<FileLines[1], "## Plugin GUID: g">> \o SubSeq(FileLines, 2, Len(FileLines)), "\n")
    \o "\n"

\* C16: a file that begins with a metadata header with no GUID line after it
\* parses, if it parses with a GUID line put after the header, to a document
\* with metadata of an empty mod_guid and with the sections and entries of the
\* text with the GUID line
C16_MissingGuid ==
    (pc \in {"done", "failed"} /\ HeaderWithoutGuid /\ parse(WithGuid).ok) =>
        /\ Parsed
        /\ IsSome(Doc.metadata)
        /\ Get(Doc.metadata).mod_guid = ""
        /\ Doc.sections = parse(WithGuid).val.sections

\* the same text with a GUID line in the place of the line after the header
GuidInPlace ==
    Join(<<FileLines[1], "## Plugin GUID: g">> \o SubSeq(FileLines, 3, Len(FileLines)), "\n")
    \o "\n"

\* the file holds one metadata header and no more
OneHeader ==
    Cardinality({i \in 1..Len(FileLines) : StartsWith(FileLines[i], METADATA_PREFIX)}) = 1

\* C16 amended: for a file that begins with a metadata header with no GUID line
\* after it, the line after the header is taken for the GUID line: parse fails
\* or returns a document as it does for the text with a GUID line in the place
\* of that line, with the same sections and entries, and with metadata of the
\* same name and version and an empty mod_guid (if no later header sets it
\* again)
C16_MissingGuidTakesLine ==
    (pc \in {"done", "failed"} /\ HeaderWithoutGuid) =>
        /\ Parsed = parse(GuidInPlace).ok
        /\ Parsed =>
             /\ Doc.sections = parse(GuidInPlace).val.sections
             /\ IsSome(Doc.metadata)
             /\ OneHeader =>
                  Doc.metadata =
                    Some([Get(parse(GuidInPlace).val.metadata) EXCEPT !.mod_guid = ""])

C16_Witness ==
    /\ Parsed
    /\ file = "## Settings file was created by plugin a b\n[S]\n[S]\nK = 1\n"
    /\ Doc = FileData(Some(Metadata("a", "b", "")),
                      <<Section("S", <<Entry("K", None, None, ValueInt(1, None))>>)>>)

\* the kind of value a type hint names
KindOfHint(type_name) ==
    CASE type_name = "Boolean" -> "Bool"
      [] type_name = "String" -> "String"
      [] type_name = "Int32" -> "Int"
      [] type_name = "Single" -> "Float"

\* the step reads an entry under one of the four type hints, with no option list
HintedRead ==
    /\ EntryRead
    /\ ~IsSome(Pending.acceptable_values)
    /\ IsSome(Pending.type_name)
    /\ Get(Pending.type_name) \in {"Boolean", "String", "Int32", "Single"}

\* the two documents have the same sections and entries, each entry of the
\* same name and of the same kind of value
SameKinds(x, y) ==
    /\ Len(x.sections) = Len(y.sections)
    /\ \A i \in 1..Len(x.sections) :
         /\ x.sections[i].name = y.sections[i].name
         /\ Len(x.sections[i].entries) = Len(y.sections[i].entries)
         /\ \A j \in 1..Len(x.sections[i].entries) :
              /\ x.sections[i].entries[j].name = y.sections[i].entries[j].name
              /\ x.sections[i].entries[j].value.type = y.sections[i].entries[j].value.type

\* an entry read under a type hint, with no option list, has a value of the
\* kind the hint names, whatever the first character of its text
HintDecides ==
    [][(HintedRead /\ pc' = "reading") =>
          NewEntry.value.type = KindOfHint(Get(Pending.type_name))]_vars

\* C20: an entry read under one of the hints Boolean, String, Int32 and Single,
\* with no option list, has a value of the kind the hint names, whatever the
\* first character of its text; the document parse returned, written and
\* parsed again, has every entry of the kind it had
C20_HintOverrides ==
    /\ HintDecides
    /\ [](Parsed => Reparsed(Doc).ok /\ SameKinds(Reparsed(Doc).val, Doc))

\* the header lines and the entry lines of a text as the loop meets them: a
\* sequence per header line, of its name and then the names of the entry
\* lines up to the next header; the line after a metadata header is passed over
RECURSIVE Outline(_, _, _)
Outline(lines, i, acc) ==
    IF i > Len(lines) THEN acc
    ELSE IF lines[i] = "" THEN Outline(lines, i + 1, acc)
    ELSE IF StartsWith(lines[i], METADATA_PREFIX)
        THEN Outline(lines, IF IsSome(read_metadata_line(lines[i])) THEN i + 2 ELSE i + 1, acc)
    ELSE IF StartsWith(lines[i], "[") /\ EndsWith(lines[i], "]")
        THEN Outline(lines, i + 1, Append(acc, <<SubSeq(lines[i], 2, Len(lines[i]) - 1)>>))
    ELSE IF IsEntryLine(lines[i]) /\ acc # <<>>
        THEN Outline(lines, i + 1,
                     [acc EXCEPT ![Len(acc)] =
                         Append(@, Trim(Get(SplitOnce(lines[i], "="))[1]))])
    ELSE Outline(lines, i + 1, acc)

\* the same of a document: per section its name and the names of its entries
OutlineOf(doc) ==
    [i \in 1..Len(doc.sections) |->
        <<doc.sections[i].name>>
        \o [j \in 1..Len(doc.sections[i].entries) |-> doc.sections[i].entries[j].name]]

\* C21: the document parse returns has one section per header line read, in
\* the order of the header lines, same names apart and empty sections kept,
\* the last one too, each with its entries in the order of the entry lines;
\* write puts the sections and the entries out in that order
C21_DocumentOrder ==
    Parsed =>
        /\ OutlineOf(Doc) = Outline(FileLines, 1, <<>>)
        /\ Outline(WriteOut(Doc), 1, <<>>) = OutlineOf(Doc)

\* two sections of one name, the first empty, the last with two entries
C21_Witness ==
    /\ Parsed
    /\ file = "[S]\n[S]\nK = 1\n=\n"
    /\ OutlineOf(Doc) = <<(<<"S">>), <<"S", "K", "">>>>

\* the description lines of the comment block that ends lines: the ## lines
\* back to the nearest line that is neither empty nor a comment
RECURSIVE DescBlock(_, _, _)
DescBlock(lines, i, acc) ==
    IF i = 0 THEN acc
    ELSE IF StartsWith(lines[i], "##")
        THEN DescBlock(lines, i - 1, <<Trim(TrimStartMatches(lines[i], "##"))>> \o acc)
    ELSE IF lines[i] = "" \/ StartsWith(lines[i], "# ") \/ lines[i] = FLAGS_MESSAGE
        THEN DescBlock(lines, i - 1, acc)
    ELSE acc

\* C22: the description of an entry is made of the ## lines of the comment
\* block right before its line, and of no ## line that a section header or a
\* skipped line without = separates from it
C22_DescriptionAdjacent ==
    [][(EntryRead /\ pc' = "reading") =>
        NewEntry.description =
            IF DescBlock(FileLines, Len(FileLines), <<>>) = <<>> THEN None
            ELSE Some(Join(DescBlock(FileLines, Len(FileLines), <<>>), "\n"))]_vars

\* the line before the one read is an entry line
AfterEntryLine == FileLines # <<>> /\ IsEntryLine(FileLines[Len(FileLines)])

\* C24: the step that finalizes an entry line leaves no pending comment field
\* and no pending description line, so an entry line right after an entry line
\* has no description, no default, no options, no range, and the kind its
\* first character stands for
C24_BuilderReset ==
    /\ [][(EntryRead /\ pc' = "reading") =>
            pending_builder' = None /\ pending_desc_lines' = <<>>]_vars
    /\ [][(EntryRead /\ pc' = "reading" /\ AfterEntryLine) =>
            /\ NewEntry.description = None
            /\ NewEntry.default = None
            /\ NewEntry.value.type = HeuristicKind(EntryText)
            /\ NewEntry.value.type \in {"Int", "Float"} =>
                    NewEntry.value = parse_simple_value(EntryText, check_value_type(EntryText),
                                                        None).val]_vars

\* an entry with a default, and right after it an entry with none
C24_Witness ==
    /\ Parsed
    /\ file = "[S]\n# Default value: 1\nK = 1\nK = 1\n"
    /\ Doc.sections[1].entries =
            <<Entry("K", None, Some(ValueInt(1, None)), ValueInt(1, None)),
              Entry("K", None, None, ValueInt(1, None))>>

\* a line that is a section header, or empty, or skipped for having no =
KeepsPending(l) ==
    \/ l = ""
    \/ StartsWith(l, "[") /\ EndsWith(l, "]")
    \/ /\ ~StartsWith(l, "##")
       /\ ~StartsWith(l, "# ")
       /\ l # FLAGS_MESSAGE
       /\ ~Contains(l, "=")

\* C30: a section header, an empty line and a line without = leave the pending
\* type hint, default text, option list, range and flags marker as they are,
\* and the next entry line is built from them in whatever section it stands
C30_PendingSurvives ==
    /\ [][(pc = "reading" /\ pc' = "reading" /\ pos' = pos + 1 /\ KeepsPending(LineRead)) =>
            pending_builder' = pending_builder]_vars
    /\ [][(EntryRead /\ pc' = "reading") =>
            /\ IsSome(NewEntry.default) = IsSome(Pending.default_value)
            /\ IsSome(Pending.acceptable_values) =>
                    /\ NewEntry.value.type = (IF Pending.is_flags THEN "Flags" ELSE "Enum")
                    /\ NewEntry.value.options = Get(Pending.acceptable_values)
            /\ ~IsSome(Pending.acceptable_values) =>
                    /\ IsSome(Pending.type_name) =>
                            NewEntry.value.type = KindOfHint(Get(Pending.type_name))
                    /\ NewEntry.value.type = "Int" =>
                            IsSome(NewEntry.value.int_range) = IsSome(Pending.range)]_vars

\* comments of four kinds in one section, and their entry in the next one
C30_Witness ==
    /\ Parsed
    /\ file = "# Default value: 1\n# Acceptable value range: From 0 to 5\n[S]\nK = 1\n"
    /\ Doc.sections = <<Section("S",
            <<Entry("K", None, Some(ValueInt(1, Some(Range(0, 5)))),
                    ValueInt(1, Some(Range(0, 5))))>>)>>

\* the text of lines, each with its line end
TextOf(lines) == IF lines = <<>> THEN "" ELSE Join(lines, "\n") \o "\n"

\* the text of the file with an empty line put in after its k-th line
WithBlank(k) ==
    TextOf(SubSeq(FileLines, 1, k) \o <<"">> \o SubSeq(FileLines, k + 1, Len(FileLines)))

\* the k-th line of the file is a metadata header the parser recognizes
AfterHeader(k) ==
    /\ k >= 1
    /\ StartsWith(FileLines[k], METADATA_PREFIX)
    /\ IsSome(read_metadata_line(FileLines[k]))

\* C23 as stated: an empty line put in anywhere in the file, before its first
\* line and after its last line too, leaves the outcome of parse as it is
C23_BlankLinesAnywhere ==
    (pc \in {"done", "failed"} /\ file_exists) =>
        \A k \in 0..Len(FileLines) : parse(WithBlank(k)) = Get(result)

\* C23: an empty line put in anywhere but right after a metadata header line
\* leaves the outcome of parse as it is: the same error, or the same metadata,
\* sections and entries
C23_BlankLines ==
    (pc \in {"done", "failed"} /\ file_exists) =>
        \A k \in 0..Len(FileLines) :
            ~AfterHeader(k) => parse(WithBlank(k)) = Get(result)

\* a header, its GUID line and a section with an entry: an empty line after
\* the GUID line changes nothing, one after the header takes the GUID's place
C23_Witness ==
    /\ Parsed
    /\ FileLines = <<"## Settings file was created by plugin a b", "## Plugin GUID: g",
                     "[S]", "K = 1">>
    /\ parse(WithBlank(2)) = Get(result)
    /\ parse(WithBlank(1)).val.metadata = Some(Metadata("a", "b", ""))
    /\ Doc.metadata = Some(Metadata("a", "b", "g"))

\* the lines write puts out for one entry
Block(e) == WriteEntries(<<e>>)

\* the number of description lines of an entry
DescCount(e) == IF IsSome(e.description) THEN Len(StrLines(Get(e.description))) ELSE 0

\* the type name the claim gives for each variant
TypeOfVariant(v) ==
    CASE v.type = "Bool" -> "Boolean"
      [] v.type = "String" -> "String"
      [] v.type = "Int" -> "Int32"
      [] v.type = "Float" -> "Single"
      [] v.type \in {"Enum", "Flags"} -> "String"

\* the value is an Int or a Float with a range
Ranged(v) ==
    \/ v.type = "Int" /\ IsSome(v.int_range)
    \/ v.type = "Float" /\ IsSome(v.float_range)

\* the lines of an entry are laid out as the claim says
EntryLayout(e) ==
    /\ \A i \in 1..DescCount(e) : Block(e)[i] = "## " \o StrLines(Get(e.description))[i]
    /\ Block(e)[DescCount(e) + 1] = "# Setting type: " \o TypeOfVariant(e.value)
    /\ Block(e)[DescCount(e) + 2] =
            IF IsSome(e.default) THEN "# Default value: " \o value_to_string(Get(e.default))
            ELSE "# Default value:"
    /\ (\E i \in 1..Len(Block(e)) : StartsWith(Block(e)[i], "# Acceptable values:"))
            <=> e.value.type \in {"Enum", "Flags"}
    /\ e.value.type \in {"Enum", "Flags"} =>
            Block(e)[DescCount(e) + 3] = "# Acceptable values: " \o Join(e.value.options, ", ")
    /\ (\E i \in 1..Len(Block(e)) : Block(e)[i] = FLAGS_MESSAGE) <=> e.value.type = "Flags"
    /\ e.value.type = "Flags" => Block(e)[DescCount(e) + 4] = FLAGS_MESSAGE
    /\ (\E i \in 1..Len(Block(e)) : StartsWith(Block(e)[i], "# Acceptable value range:"))
            <=> Ranged(e.value)
    /\ Ranged(e.value) =>
            StartsWith(Block(e)[DescCount(e) + 3], "# Acceptable value range: From ")
    /\ Len(Block(e)) =
            DescCount(e) + 4
            + (IF e.value.type \in {"Enum", "Flags"} THEN 1 ELSE 0)
            + (IF e.value.type = "Flags" \/ Ranged(e.value) THEN 1 ELSE 0)
    /\ Block(e)[Len(Block(e)) - 1] = e.name \o " = " \o value_to_string(e.value)
    /\ Block(e)[Len(Block(e))] = ""

\* the blocks of entries, and of sections, one after the other
RECURSIVE Blocks(_)
Blocks(entries) ==
    IF entries = <<>> THEN <<>> ELSE Block(entries[1]) \o Blocks(Tail(entries))

RECURSIVE SectionBlocks(_)
SectionBlocks(sects) ==
    IF sects = <<>> THEN <<>>
    ELSE <<"[" \o sects[1].name \o "]", "">> \o Blocks(sects[1].entries)
         \o SectionBlocks(Tail(sects))

\* the two header lines and an empty line, if the document has metadata
HeaderBlock(doc) ==
    IF doc.metadata = None THEN <<>>
    ELSE <<"## Settings file was created by plugin " \o Get(doc.metadata).mod_name \o " "
                \o Get(doc.metadata).mod_version,
           "## Plugin GUID: " \o Get(doc.metadata).mod_guid, "">>

\* C25: the text a command writes is the header pair and an empty line if the
\* document has metadata, then per section its [name] line and an empty
\* line, then per entry its ## description lines, the type line of its
\* variant, the default line, the options line for Enum and Flags only, the
\* flags marker for Flags only or the range line for a ranged Int or Float
\* only, the name = value line and an empty line
C25_RenderLayout ==
    Edited =>
        /\ file = Join(HeaderBlock(Written) \o SectionBlocks(Written.sections), "\n")
        /\ \A i \in 1..Len(Written.sections) :
               \A j \in 1..Len(Written.sections[i].entries) :
                   EntryLayout(Written.sections[i].entries[j])

\* a Flags value set on an entry with a description and no default
C25_Witness ==
    /\ Edited
    /\ Get(last).text = "[S]\n## d\nK = 1\n"
    /\ Get(last).args.value = ValueFlags(<<0>>, <<"A", "B">>)
    /\ file = "[S]\n\n## d\n# Setting type: String\n# Default value:\n"
                \o "# Acceptable values: A, B\n" \o FLAGS_MESSAGE \o "\nK = A\n"

\* the lines the step reads: the line of the iteration, and the line after it
\* if the iteration reads that too
StepLines == ReadLines(SubSeq(file', Len(file) + 1, Len(file')))

\* the step reads a metadata header line with two tokens or more
HeaderRead ==
    /\ pc = "reading"
    /\ pos' > pos
    /\ StartsWith(StepLines[1], "## Settings file was created by plugin ")
    /\ Len(Split(SubSeq(StepLines[1], Len("## Settings file was created by plugin ") + 1,
                        Len(StepLines[1])), " ")) >= 2

\* C26: the iteration that reads a metadata header line with two tokens or
\* more reads the next line too, unless the input ends, and whatever that line
\* is it opens no section, adds no description line, no comment field and no
\* entry; the GUID is its text after the GUID prefix, or empty without one
C26_GuidLineConsumed ==
    [][HeaderRead =>
        /\ Len(StepLines) = 2 \/ eof'
        /\ pc' = "reading"
        /\ UNCHANGED <<sections, current_section, pending_builder, pending_desc_lines>>
        /\ IsSome(metadata')
        /\ Get(metadata').mod_guid =
               IF Len(StepLines) = 2 /\ StartsWith(StepLines[2], "## Plugin GUID: ")
               THEN SubSeq(StepLines[2], Len("## Plugin GUID: ") + 1, Len(StepLines[2]))
               ELSE ""]_vars

\* a section header in the place of the GUID line opens no section: the entry
\* after it has none
C26_Witness ==
    /\ Failed
    /\ file = "## Settings file was created by plugin a b\n[S]\nK = 1\n"
    /\ metadata = Some(Metadata("a", "b", ""))
    /\ sections = <<>> /\ current_section = None
    /\ result = Some(Err("entry has no section"))

\* C27: the file a command that returned Ok has written parses without error
C27_EditsRepeatable == Edited => After.ok

\* a relative path with a root, a leading . or a .. among its parts
UnsafePath(rel) ==
    \/ StartsWith(rel, "/")
    \/ Split(rel, "/")[1] = "."
    \/ \E i \in 1..Len(Split(rel, "/")) : Split(rel, "/")[i] = ".."

\* C28: a command whose path is unsafe, or whose file is there and does not
\* parse, returns an error and leaves the file as it was: the same text, and
\* no file where there was none
C28_FailedEditChangesNothing ==
    [][(edits' = edits + 1
        /\ \/ UnsafePath(Get(last').args.rel_path)
           \/ file_exists /\ ~parse(file).ok) =>
            /\ ~Get(last').result.ok
            /\ UnsafePath(Get(last').args.rel_path) =>
                    Get(last').result = Err("invalid path")
            /\ file' = file
            /\ file_exists' = file_exists]_vars

\* a command on a file whose entry has no section: the error of parse, and
\* the file as it was
C28_Witness ==
    /\ IsSome(last)
    /\ Get(last).args.rel_path = "a.cfg"
    /\ Get(last).exists /\ Get(last).text = "K = 1\n"
    /\ Get(last).result = Err("entry has no section")
    /\ file_exists /\ file = "K = 1\n"

\* the step reads an entry line under a type hint, with no option list and a
\* section open
NamedRead ==
    /\ EntryRead
    /\ IsSome(current_section)
    /\ ~IsSome(Pending.acceptable_values)
    /\ IsSome(Pending.type_name)

\* the entry of the step is the one a hint of type_name gives: its value and
\* its default are read as that type, and the parse fails if one of them fails
ReadAs(type_name) ==
    IF /\ parse_simple_value(EntryText, type_name, Pending.range).ok
       /\ IsSome(Pending.default_value) =>
               parse_simple_value(Get(Pending.default_value), type_name, Pending.range).ok
    THEN /\ pc' = "reading"
         /\ NewEntry.value = parse_simple_value(EntryText, type_name, Pending.range).val
    ELSE pc' = "failed"

\* C29: under a type name that is none of the six the parser knows, an entry
\* with no option list parses to the String of its value text as it stands,
\* backslash and n included, and its default likewise, where under String the
\* two characters become a newline; Number reads as Int32 and Double as Single
C29_UnknownTypeNames ==
    [][NamedRead =>
        /\ Get(Pending.type_name) \notin
                {"Boolean", "String", "Int32", "Number", "Single", "Double"} =>
                /\ pc' = "reading"
                /\ NewEntry.value = ValueString(EntryText)
                /\ NewEntry.default =
                       IF IsSome(Pending.default_value)
                       THEN Some(ValueString(Get(Pending.default_value))) ELSE None
        /\ Get(Pending.type_name) = "String" =>
                /\ pc' = "reading"
                /\ NewEntry.value = ValueString(Replace(EntryText, "\\n", "\n"))
        /\ Get(Pending.type_name) = "Number" => ReadAs("Int32")
        /\ Get(Pending.type_name) = "Double" => ReadAs("Single")]_vars

\* a value with a backslash and an n under the type name KeyCode
C29_Witness ==
    /\ Parsed
    /\ file = "[S]\n# Setting type: KeyCode\n# Default value: 1\\n\nK = a\\nb\n"
    /\ Doc.sections[1].entries =
            <<Entry("K", None, Some(ValueString("1\\n")), ValueString("a\\nb"))>>

====
